---------------------------- MODULE Spec2Model ----------------------------
(***************************************************************************)
(* Multi-modal stress risk assessment engine of EmotionGuard.              *)
(*                                                                         *)
(* Numbers are integers in fixed units:                                    *)
(*   scores and contextual risk    points                                  *)
(*   weighted totals               tenths of a point                       *)
(*   ratios in 0..1                hundredths (jitter, shimmer:            *)
(*                                 thousandths)                            *)
(*   confidence accumulators       thousandths                             *)
(*   times                         milliseconds                            *)
(* An optional value is <<>> (undefined) or <<v>>.                         *)
(***************************************************************************)
EXTENDS Integers, Sequences, FiniteSets, TLC

VARIABLES
  \* --- a call of one of the pure functions of the engine
  args,          \* the arguments of the call
  ret,           \* <<>> before the call returns, <<value>> after
  \* --- server: one assessment request (emotionGuard.ts, riskScoring.ts)
  pc,            \* position of the request in checkBeforeTrade
  req,           \* the request: signals, orderContext
  userBaseline,  \* storage: the baseline of the user
  policy,        \* the policy the request is evaluated against
  tzOffset,      \* time zone of the server process, hours east of UTC
  assessment,    \* storage: <<>> or <<the assessment record>>
  auditLog,      \* storage: audit log entries
  events,        \* storage: real-time events
  riskResult,    \* <<>> or <<RiskScoringResult>>
  result,        \* <<>> or <<AssessmentResult>>
  callLog,       \* history: the calls of calculateRiskScore made so far
  \* --- browser: the face detection service (src/unnamed/part_006)
  now,                     \* Date.now()
  isRunning, fallbackMode, \* fields of FaceDetectionService
  camera,                  \* "null", "idle" (created or stopped), "started"
  faceMesh,                \* TRUE when this.faceMesh is an object
  frameInFlight,           \* faceMesh.send() is awaited
  earWindow, isBlinking, blinkStartTime, blinkEvents,
  smoothedEyeAspectRatio,  \* <<>> (null) or <<EAR>>
  lastMetricTime,
  watchdogInterval,        \* <<>> or <<time the interval fires next>>
  fallbackInterval,        \* <<>> or <<time the interval fires next>>
  callbacks,               \* number of registered metrics callbacks
  lastMetrics,             \* <<>> or <<the last sample handed to a callback>>
  session,                 \* history: what happened since startDetection
  ticks, frames            \* history: clock steps taken, frames sent

serverVars == <<pc, req, userBaseline, policy, tzOffset, assessment, auditLog,
                events, riskResult, result, callLog>>
faceVars == <<now, isRunning, fallbackMode, camera, faceMesh, frameInFlight,
              earWindow, isBlinking, blinkStartTime, blinkEvents,
              smoothedEyeAspectRatio, lastMetricTime, watchdogInterval,
              fallbackInterval, callbacks, lastMetrics, session, ticks,
              frames>>
engineVars == <<args, ret, serverVars>>
vars == <<engineVars, faceVars>>

-----------------------------------------------------------------------------
(* Optional values and small arithmetic helpers                            *)

Undefined == <<>>
Def(v) == <<v>>
IsDef(o) == o # <<>>
Val(o) == o[1]

Min(a, b) == IF a <= b THEN a ELSE b
Max(a, b) == IF a >= b THEN a ELSE b
Abs(a) == IF a >= 0 THEN a ELSE 0 - a

RECURSIVE SumSeq(_)
SumSeq(s) == IF s = <<>> THEN 0 ELSE Head(s) + SumSeq(Tail(s))

RECURSIVE SumSquares(_)
SumSquares(s) == IF s = <<>> THEN 0 ELSE Head(s) * Head(s) + SumSquares(Tail(s))

\* JavaScript truthiness of an optional number: defined and not 0
Truthy(o) == IsDef(o) /\ Val(o) # 0

-----------------------------------------------------------------------------
(* RiskScoringService: statistics helpers                                  *)

\* calculateVariance(values) > limit, for a non-empty list:
\* variance = (n * sum(x^2) - sum(x)^2) / n^2
VarianceNum(values) == Len(values) * SumSquares(values) - SumSeq(values) * SumSeq(values)
varianceExceeds(values, limit) ==
  VarianceNum(values) > limit * Len(values) * Len(values)

RECURSIVE TotalVariation(_)
TotalVariation(m) ==
  IF Len(m) < 2 THEN 0 ELSE Abs(m[2] - m[1]) + TotalVariation(Tail(m))

\* calculateMouseStability as a fraction num/den of 1.0
calculateMouseStability(movements) ==
  IF Len(movements) < 2 THEN [num |-> 1, den |-> 1]
  ELSE LET den == 100 * (Len(movements) - 1)
       IN  [num |-> Max(0, den - TotalVariation(movements)), den |-> den]

\* coefficientOfVariation = sqrt(variance) / avgTiming compared with p/100.
\* cv^2 = VarianceNum / sum^2 ; sum = 0 gives NaN, every comparison false.
cvGreater(timings, p) ==
  LET s == SumSeq(timings)
  IN  /\ s # 0
      /\ \/ p < 0
         \/ (s > 0 /\ 10000 * VarianceNum(timings) > p * p * s * s)
cvLess(timings, p) ==
  LET s == SumSeq(timings)
  IN  /\ s > 0
      /\ p > 0
      /\ 10000 * VarianceNum(timings) < p * p * s * s

\* calculateKeystrokeRhythm(timings) < p/100 where rhythm = max(0, 1 - cv)
rhythmLess(timings, p) ==
  IF Len(timings) < 2 THEN 100 < p
  ELSE IF SumSeq(timings) = 0 THEN FALSE
  ELSE p > 0 /\ cvGreater(timings, 100 - p)
\* calculateKeystrokeRhythm(timings) > p/100
rhythmGreater(timings, p) ==
  IF Len(timings) < 2 THEN 100 > p
  ELSE IF SumSeq(timings) = 0 THEN FALSE
  ELSE p < 0 \/ cvLess(timings, 100 - p)


-----------------------------------------------------------------------------
(* RiskScoringService: modality analyzers (riskScoring.ts)                 *)

BaselineField(baseline, f) ==
  IF IsDef(baseline) THEN Val(baseline)[f] ELSE Undefined

CountCorrect(trials) == Cardinality({i \in DOMAIN trials : trials[i].correct})
ReactionTimes(trials) == [i \in DOMAIN trials |-> trials[i].reactionTimeMs]

\* a z-score above 2 adds what a z-score above 1 adds
analyzeCognitivePerformance_slowCountsAsModerate(signals, baseline) ==
  IF ~IsDef(signals.stroopTrials) \/ Val(signals.stroopTrials) = <<>>
  THEN [score |-> 0, confidence |-> 0,
        reactionTimeElevated |-> FALSE, accuracyLow |-> FALSE]
  ELSE
    LET trials == Val(signals.stroopTrials)
        n == Len(trials)
        sumRt == SumSeq(ReactionTimes(trials))
        correct == CountCorrect(trials)
        bRt == BaselineField(baseline, "reactionTimeMs")
        bSd == BaselineField(baseline, "reactionTimeStdDev")
        bAcc == BaselineField(baseline, "accuracy")
        sd == IF Truthy(bSd) THEN Val(bSd) ELSE 50
        \* reactionTimeZScore > k  <=>  sumRt - n*mean > k*sd*n   (sd > 0)
        zAbove(k) == sumRt - n * Val(bRt) > k * sd * n
        rtRisk ==
          IF Truthy(bRt)
          THEN IF zAbove(1) THEN 15 ELSE 0
          ELSE IF sumRt > 800 * n THEN 25 ELSE IF sumRt > 600 * n THEN 10 ELSE 0
        \* accuracyDiff > d/100  <=>  bAcc*n - 100*correct > d*n
        accDiffAbove(d) == Val(bAcc) * n - 100 * correct > d * n
        accRisk ==
          IF Truthy(bAcc)
          THEN IF accDiffAbove(15) THEN 25 ELSE IF accDiffAbove(8) THEN 12 ELSE 0
          ELSE IF 100 * correct < 70 * n THEN 20
               ELSE IF 100 * correct < 85 * n THEN 8 ELSE 0
        varRisk == IF varianceExceeds(ReactionTimes(trials), 10000) THEN 10 ELSE 0
    IN  [score |-> Min(60, rtRisk + accRisk + varRisk),
         confidence |-> 90,
         reactionTimeElevated |-> rtRisk > 0,
         accuracyLow |-> accRisk > 0]

\* lines 88-163
analyzeCognitivePerformance(signals, baseline) ==
  IF ~IsDef(signals.stroopTrials) \/ Val(signals.stroopTrials) = <<>>
  THEN [score |-> 0, confidence |-> 0,
        reactionTimeElevated |-> FALSE, accuracyLow |-> FALSE]
  ELSE
    LET trials == Val(signals.stroopTrials)
        n == Len(trials)
        sumRt == SumSeq(ReactionTimes(trials))
        correct == CountCorrect(trials)
        bRt == BaselineField(baseline, "reactionTimeMs")
        bSd == BaselineField(baseline, "reactionTimeStdDev")
        bAcc == BaselineField(baseline, "accuracy")
        sd == IF Truthy(bSd) THEN Val(bSd) ELSE 50
        \* reactionTimeZScore > k  <=>  sumRt - n*mean > k*sd*n   (sd > 0)
        zAbove(k) == sumRt - n * Val(bRt) > k * sd * n
        rtRisk ==
          IF Truthy(bRt)
          THEN IF zAbove(2) THEN 30 ELSE IF zAbove(1) THEN 15 ELSE 0
          ELSE IF sumRt > 800 * n THEN 25 ELSE IF sumRt > 600 * n THEN 10 ELSE 0
        \* accuracyDiff > d/100  <=>  bAcc*n - 100*correct > d*n
        accDiffAbove(d) == Val(bAcc) * n - 100 * correct > d * n
        accRisk ==
          IF Truthy(bAcc)
          THEN IF accDiffAbove(15) THEN 25 ELSE IF accDiffAbove(8) THEN 12 ELSE 0
          ELSE IF 100 * correct < 70 * n THEN 20
               ELSE IF 100 * correct < 85 * n THEN 8 ELSE 0
        varRisk == IF varianceExceeds(ReactionTimes(trials), 10000) THEN 10 ELSE 0
    IN  [score |-> Min(60, rtRisk + accRisk + varRisk),
         confidence |-> 90,
         reactionTimeElevated |-> rtRisk > 0,
         accuracyLow |-> accRisk > 0]

\* the cap of the behavioral component at 35 left out
analyzeBehavioralBiometrics_uncapped(signals, baseline) ==
  LET bMouse == BaselineField(baseline, "mouseStability")
      bKeys == BaselineField(baseline, "keystrokeRhythm")
      mouseRisk ==
        IF IsDef(signals.mouseMovements) /\ Val(signals.mouseMovements) # <<>>
        THEN LET st == calculateMouseStability(Val(signals.mouseMovements))
                 \* stabilityDiff > d/100
                 diffAbove(d) == Val(bMouse) * st.den - 100 * st.num > d * st.den
             IN  IF Truthy(bMouse)
                 THEN IF diffAbove(30) THEN 15 ELSE IF diffAbove(15) THEN 8 ELSE 0
                 ELSE IF 2 * st.num < st.den THEN 12 ELSE 0
        ELSE 0
      keyRisk ==
        IF IsDef(signals.keystrokeTimings) /\ Val(signals.keystrokeTimings) # <<>>
        THEN LET t == Val(signals.keystrokeTimings)
                 \* Math.abs(baseline.keystrokeRhythm - keystrokeRhythm) > d/100
                 diffAbove(d) == \/ rhythmLess(t, Val(bKeys) - d)
                                 \/ rhythmGreater(t, Val(bKeys) + d)
             IN  IF Truthy(bKeys)
                 THEN IF diffAbove(40) THEN 12 ELSE IF diffAbove(20) THEN 6 ELSE 0
                 ELSE IF rhythmLess(t, 30) THEN 10 ELSE 0
        ELSE 0
      clickRisk ==
        IF Truthy(signals.clickLatency)
        THEN IF Val(signals.clickLatency) > 300 THEN 8
             ELSE IF Val(signals.clickLatency) < 50 THEN 12 ELSE 0
        ELSE 0
  IN  [score |-> mouseRisk + keyRisk + clickRisk,
       confidence |-> 70,
       anomaliesDetected |-> mouseRisk > 0 \/ keyRisk > 0 \/ clickRisk > 0]

\* lines 165-234
analyzeBehavioralBiometrics(signals, baseline) ==
  LET bMouse == BaselineField(baseline, "mouseStability")
      bKeys == BaselineField(baseline, "keystrokeRhythm")
      mouseRisk ==
        IF IsDef(signals.mouseMovements) /\ Val(signals.mouseMovements) # <<>>
        THEN LET st == calculateMouseStability(Val(signals.mouseMovements))
                 \* stabilityDiff > d/100
                 diffAbove(d) == Val(bMouse) * st.den - 100 * st.num > d * st.den
             IN  IF Truthy(bMouse)
                 THEN IF diffAbove(30) THEN 15 ELSE IF diffAbove(15) THEN 8 ELSE 0
                 ELSE IF 2 * st.num < st.den THEN 12 ELSE 0
        ELSE 0
      keyRisk ==
        IF IsDef(signals.keystrokeTimings) /\ Val(signals.keystrokeTimings) # <<>>
        THEN LET t == Val(signals.keystrokeTimings)
                 \* Math.abs(baseline.keystrokeRhythm - keystrokeRhythm) > d/100
                 diffAbove(d) == \/ rhythmLess(t, Val(bKeys) - d)
                                 \/ rhythmGreater(t, Val(bKeys) + d)
             IN  IF Truthy(bKeys)
                 THEN IF diffAbove(40) THEN 12 ELSE IF diffAbove(20) THEN 6 ELSE 0
                 ELSE IF rhythmLess(t, 30) THEN 10 ELSE 0
        ELSE 0
      clickRisk ==
        IF Truthy(signals.clickLatency)
        THEN IF Val(signals.clickLatency) > 300 THEN 8
             ELSE IF Val(signals.clickLatency) < 50 THEN 12 ELSE 0
        ELSE 0
  IN  [score |-> Min(35, mouseRisk + keyRisk + clickRisk),
       confidence |-> 70,
       anomaliesDetected |-> mouseRisk > 0 \/ keyRisk > 0 \/ clickRisk > 0]

\* the two upper tiers exchanged
analyzeSelfReport_tiersSwapped(signals) ==
  IF ~IsDef(signals.stressLevel)
  THEN [score |-> 0, confidence |-> 0]
  ELSE LET stressLevel == Val(signals.stressLevel)
       IN  [score |-> IF stressLevel >= 8 THEN 25
                      ELSE IF stressLevel >= 6 THEN 40
                      ELSE IF stressLevel >= 4 THEN 10 ELSE 0,
            confidence |-> 80]

analyzeSelfReport(signals) ==
  IF ~IsDef(signals.stressLevel)
  THEN [score |-> 0, confidence |-> 0]
  ELSE LET stressLevel == Val(signals.stressLevel)
       IN  [score |-> IF stressLevel >= 8 THEN 40
                      ELSE IF stressLevel >= 6 THEN 25
                      ELSE IF stressLevel >= 4 THEN 10 ELSE 0,
            confidence |-> 80]

\* missing features read as zeros instead of returning early: the energy
\* of an absent voice sample counts as very low
analyzeVoiceProsody_missingAsZero(signals) ==
  LET features == IF IsDef(signals.voiceProsodyFeatures)
                  THEN Val(signals.voiceProsodyFeatures)
                  ELSE [pitch |-> 0, jitter |-> 0, shimmer |-> 0, energy |-> 0]
      riskScore ==
          (IF features.pitch > 250 THEN 15
           ELSE IF features.pitch > 200 THEN 8 ELSE 0)
        + (IF features.jitter > 20 THEN 10 ELSE 0)
        + (IF features.shimmer > 80 THEN 10 ELSE 0)
        + (IF features.energy < 30 THEN 8 ELSE 0)
  IN  [score |-> Min(25, riskScore), confidence |-> 60,
       stressDetected |-> riskScore > 0]

analyzeVoiceProsody(signals) ==
  IF ~IsDef(signals.voiceProsodyFeatures)
  THEN [score |-> 0, confidence |-> 0, stressDetected |-> FALSE]
  ELSE LET features == Val(signals.voiceProsodyFeatures)
           riskScore ==
               (IF features.pitch > 250 THEN 15
                ELSE IF features.pitch > 200 THEN 8 ELSE 0)
             + (IF features.jitter > 20 THEN 10 ELSE 0)
             + (IF features.shimmer > 80 THEN 10 ELSE 0)
             + (IF features.energy < 30 THEN 8 ELSE 0)
       IN  [score |-> Min(25, riskScore), confidence |-> 60,
            stressDetected |-> riskScore > 0]

analyzeFacialExpressions(signals) ==
  IF IsDef(signals.facialExpressionFeatures)
  THEN \* legacy format is checked first
       LET features == Val(signals.facialExpressionFeatures)
           riskScore ==
               (IF features.browFurrow > 70 THEN 12
                ELSE IF features.browFurrow > 40 THEN 6 ELSE 0)
             + (IF features.blinkRate > 25 THEN 10
                ELSE IF features.blinkRate > 18 THEN 5 ELSE 0)
             + (IF features.gazeFixation < 20 THEN 8 ELSE 0)
       IN  [score |-> Min(25, riskScore), confidence |-> 60,
            stressDetected |-> riskScore > 0]
  ELSE IF IsDef(signals.facialMetrics)
  THEN LET metrics == Val(signals.facialMetrics)
           riskScore ==
               (IF metrics.blinkRate > 30 THEN 15
                ELSE IF metrics.blinkRate > 22 THEN 10
                ELSE IF metrics.blinkRate < 8 THEN 8 ELSE 0)
             + (IF metrics.browFurrow > 70 THEN 12
                ELSE IF metrics.browFurrow > 40 THEN 6 ELSE 0)
             + (IF metrics.gazeStability < 30 THEN 10
                ELSE IF metrics.gazeStability < 60 THEN 5 ELSE 0)
             + (IF metrics.eyeAspectRatio < 15 THEN 8 ELSE 0)
             + (IF metrics.jawOpenness > 30 THEN 6 ELSE 0)
       IN  IF ~metrics.isPresent
           THEN [score |-> 0, confidence |-> 0, stressDetected |-> FALSE]
           ELSE [score |-> Min(30, riskScore), confidence |-> 80,
                 stressDetected |-> riskScore > 0]
  ELSE [score |-> 0, confidence |-> 0, stressDetected |-> FALSE]

\* new Date(timeOfDay).getHours(): the local hour of the server process;
\* an unparsable string gives NaN (modelled as <<>>), for which every
\* comparison is false.
getHours(timeOfDay, tz) ==
  IF timeOfDay.valid THEN Def((timeOfDay.utcHour + tz + 24) % 24) ELSE Undefined

\* the sum of the contextual increments of a given order context
contextRisk(oc, tz) ==
  LET hour == getHours(oc.timeOfDay, tz)
  IN    (IF Truthy(oc.leverage) /\ Val(oc.leverage) > 10 THEN 20
         ELSE IF Truthy(oc.leverage) /\ Val(oc.leverage) > 5 THEN 10 ELSE 0)
      + (IF Truthy(oc.recentLosses)
         THEN IF Val(oc.recentLosses) < -10000 THEN 25
              ELSE IF Val(oc.recentLosses) < -5000 THEN 15
              ELSE IF Val(oc.recentLosses) < -1000 THEN 8 ELSE 0
         ELSE 0)
      + (IF Truthy(oc.currentPnL) /\ Val(oc.currentPnL) < -5000 THEN 15
         ELSE IF Truthy(oc.currentPnL) /\ Val(oc.currentPnL) < -2500 THEN 8
         ELSE IF Truthy(oc.currentPnL) /\ Val(oc.currentPnL) < -500 THEN 8
         ELSE 0)
      + (IF IsDef(hour) /\ (Val(hour) < 6 \/ Val(hour) > 22) THEN 5 ELSE 0)
      + (IF Truthy(oc.marketVolatility) /\ Val(oc.marketVolatility) > 100 THEN 15
         ELSE IF Truthy(oc.marketVolatility) /\ Val(oc.marketVolatility) > 80 THEN 8
         ELSE 0)

\* contextRisk kept in a field of the service instead of a local: a call
\* without order context returns what the previous call left there
analyzeContextualFactors_keepsPrevious(orderContext, tz) ==
  IF ~IsDef(orderContext)
  THEN IF callLog # <<>> THEN callLog[Len(callLog)].result.contextualRisk ELSE 0
  ELSE Min(40, contextRisk(Val(orderContext), tz))

analyzeContextualFactors(orderContext, tz) ==
  IF ~IsDef(orderContext) THEN 0
  ELSE Min(40, contextRisk(Val(orderContext), tz))

-----------------------------------------------------------------------------
(* RiskScoringService.calculateRiskScore                                   *)

\* Math.round of a non-negative number given in tenths
RoundTenths(t) == (t + 5) \div 10

\* the cap at 100 forgotten
clampRisk_uncapped(totalRisk) == Max(0, totalRisk)

\* Math.min(100, Math.max(0, totalRisk)), in tenths
clampRisk(totalRisk) == Min(1000, Max(0, totalRisk))

\* weight in tenths; a component counts only when its score is above 0
Component(r, weight) ==
  IF r.score > 0
  THEN [risk |-> r.score * weight, conf |-> r.confidence * weight, count |-> 1]
  ELSE [risk |-> 0, conf |-> 0, count |-> 0]

\* a modality the policy does not enable is left out of the score
calculateRiskScore_modesGated(signals, baseline, orderContext, pol, tz) ==
  LET cognitiveRisk == analyzeCognitivePerformance(signals, baseline)
      behavioralRisk == analyzeBehavioralBiometrics(signals, baseline)
      selfReportRisk == IF pol.enabledModes.selfReport
                        THEN analyzeSelfReport(signals)
                        ELSE [score |-> 0, confidence |-> 0]
      voiceRisk == analyzeVoiceProsody(signals)
      facialRisk == analyzeFacialExpressions(signals)
      parts == << Component(cognitiveRisk, 5), Component(behavioralRisk, 4),
                  Component(selfReportRisk, 6), Component(voiceRisk, 3),
                  Component(facialRisk, 3) >>
      contextualRisk == analyzeContextualFactors(orderContext, tz)
      totalRisk == SumSeq([i \in 1..5 |-> parts[i].risk]) + 10 * contextualRisk
      confidence == SumSeq([i \in 1..5 |-> parts[i].conf])
      componentCount == SumSeq([i \in 1..5 |-> parts[i].count])
      finalRiskScore == clampRisk(totalRisk)
  IN  [riskScore |-> RoundTenths(finalRiskScore),
       \* confidence / componentCount, kept as a fraction of thousandths
       confidence |-> IF componentCount > 0
                      THEN [num |-> confidence, den |-> componentCount]
                      ELSE [num |-> 0, den |-> 1],
       reactionTimeElevated |-> cognitiveRisk.reactionTimeElevated,
       accuracyLow |-> cognitiveRisk.accuracyLow,
       behavioralAnomalies |-> behavioralRisk.anomaliesDetected,
       voiceStressDetected |-> voiceRisk.stressDetected,
       facialStressDetected |-> facialRisk.stressDetected,
       contextualRisk |-> contextualRisk]

calculateRiskScore(signals, baseline, orderContext, pol, tz) ==
  LET cognitiveRisk == analyzeCognitivePerformance(signals, baseline)
      behavioralRisk == analyzeBehavioralBiometrics(signals, baseline)
      selfReportRisk == analyzeSelfReport(signals)
      voiceRisk == analyzeVoiceProsody(signals)
      facialRisk == analyzeFacialExpressions(signals)
      parts == << Component(cognitiveRisk, 5), Component(behavioralRisk, 4),
                  Component(selfReportRisk, 6), Component(voiceRisk, 3),
                  Component(facialRisk, 3) >>
      contextualRisk == analyzeContextualFactors(orderContext, tz)
      totalRisk == SumSeq([i \in 1..5 |-> parts[i].risk]) + 10 * contextualRisk
      confidence == SumSeq([i \in 1..5 |-> parts[i].conf])
      componentCount == SumSeq([i \in 1..5 |-> parts[i].count])
      finalRiskScore == clampRisk(totalRisk)
  IN  [riskScore |-> RoundTenths(finalRiskScore),
       \* confidence / componentCount, kept as a fraction of thousandths
       confidence |-> IF componentCount > 0
                      THEN [num |-> confidence, den |-> componentCount]
                      ELSE [num |-> 0, den |-> 1],
       reactionTimeElevated |-> cognitiveRisk.reactionTimeElevated,
       accuracyLow |-> cognitiveRisk.accuracyLow,
       behavioralAnomalies |-> behavioralRisk.anomaliesDetected,
       voiceStressDetected |-> voiceRisk.stressDetected,
       facialStressDetected |-> facialRisk.stressDetected,
       contextualRisk |-> contextualRisk]

-----------------------------------------------------------------------------
(* EmotionGuardService: verdict engine (emotionGuard.ts)                   *)

\* the block ceiling raised to the policy threshold when that is higher
determineVerdict_ceilingFollowsThreshold(riskScore, pol) ==
  IF riskScore >= Max(80, pol.riskThreshold) THEN "block"
  ELSE IF riskScore >= pol.riskThreshold THEN "hold"
  ELSE "go"

determineVerdict(riskScore, pol) ==
  IF riskScore >= 80 THEN "block"
  ELSE IF riskScore >= pol.riskThreshold THEN "hold"
  ELSE "go"

generateReasonTags(rr, signals) ==
     (IF rr.reactionTimeElevated THEN << "Reaction time elevated" >> ELSE <<>>)
  \o (IF rr.accuracyLow THEN << "Accuracy below baseline" >> ELSE <<>>)
  \o (IF Truthy(signals.stressLevel) /\ Val(signals.stressLevel) >= 7
      THEN << "Self-report high stress" >> ELSE <<>>)
  \o (IF rr.behavioralAnomalies THEN << "Behavioral anomalies detected" >> ELSE <<>>)
  \o (IF rr.voiceStressDetected THEN << "Voice stress indicators" >> ELSE <<>>)
  \o (IF rr.facialStressDetected THEN << "Facial stress indicators" >> ELSE <<>>)

getRecommendedAction(verdict, riskScore) ==
  CASE verdict = "go" -> "Proceed with trade - stress levels appear normal"
    [] verdict = "hold" -> "Consider taking a breathing break before proceeding"
    [] verdict = "block" -> "High stress detected - recommend postponing trade and reflecting on triggers"
    [] OTHER -> "Assessment completed"

\* the cooldown also handed out with a block verdict
cooldownFor_anyStop(verdict, pol) ==
  IF verdict # "go" THEN Def(pol.cooldownDuration) ELSE Undefined

\* cooldownDuration: verdict === 'hold' ? policy.cooldownDuration : undefined
cooldownFor(verdict, pol) ==
  IF verdict = "hold" THEN Def(pol.cooldownDuration) ELSE Undefined

\* storage.getDefaultPolicy(): a static policy, no database query
getDefaultPolicy == [riskThreshold |-> 65, cooldownDuration |-> 30]

-----------------------------------------------------------------------------
(* Input domains                                                           *)

MaxTrials == 2        \* longest Stroop trial list drawn
MaxStressLevel == 10  \* self-report scale 0..10

TrialKinds == { [reactionTimeMs |-> 500, correct |-> TRUE],
                [reactionTimeMs |-> 900, correct |-> FALSE] }

RECURSIVE SeqsUpTo(_, _)
SeqsUpTo(S, n) ==
  IF n = 0 THEN { <<>> }
  ELSE LET shorter == SeqsUpTo(S, n - 1)
       IN  shorter \cup { Append(q, x) : q \in {r \in shorter : Len(r) = n - 1}, x \in S }

TrialLists == { Undefined } \cup { Def(t) : t \in SeqsUpTo(TrialKinds, MaxTrials) }

MouseLists == { Undefined, Def(<<0, 80, 0>>) }
KeystrokeLists == { Undefined, Def(<<50, 400>>) }
ClickLatencies == { Undefined, Def(30) }
StressLevels == { Undefined } \cup { Def(l) : l \in 0..MaxStressLevel }

VoiceOptions ==
  { Undefined,
    Def([pitch |-> 220, jitter |-> 10, shimmer |-> 50, energy |-> 50]),
    Def([pitch |-> 260, jitter |-> 30, shimmer |-> 90, energy |-> 20]) }

LegacyFacialOptions ==
  { Undefined,
    Def([browFurrow |-> 80, blinkRate |-> 30, gazeFixation |-> 10]) }

FacialMetricsOptions ==
  { Undefined,
    Def([isPresent |-> FALSE, blinkRate |-> 35, eyeAspectRatio |-> 10,
         jawOpenness |-> 50, browFurrow |-> 80, gazeStability |-> 20]),
    Def([isPresent |-> TRUE, blinkRate |-> 35, eyeAspectRatio |-> 10,
         jawOpenness |-> 50, browFurrow |-> 80, gazeStability |-> 20]) }

SignalsDomain ==
  [ mouseMovements : MouseLists, keystrokeTimings : KeystrokeLists,
    clickLatency : ClickLatencies, stroopTrials : TrialLists,
    stressLevel : StressLevels, voiceProsodyFeatures : VoiceOptions,
    facialExpressionFeatures : LegacyFacialOptions,
    facialMetrics : FacialMetricsOptions ]

Baselines ==
  { Undefined,
    Def([reactionTimeMs |-> Def(600), reactionTimeStdDev |-> Undefined,
         accuracy |-> Def(60), mouseStability |-> Def(80),
         keystrokeRhythm |-> Def(80)]) }

OrderContexts ==
  { Undefined,
    Def([leverage |-> Undefined, recentLosses |-> Def(0), currentPnL |-> Def(0),
         timeOfDay |-> [valid |-> TRUE, utcHour |-> 12],
         marketVolatility |-> Def(50)]),
    Def([leverage |-> Def(8), recentLosses |-> Def(-2000), currentPnL |-> Def(-1000),
         timeOfDay |-> [valid |-> FALSE, utcHour |-> 0],
         marketVolatility |-> Def(90)]),
    Def([leverage |-> Def(20), recentLosses |-> Def(-20000), currentPnL |-> Def(-6000),
         timeOfDay |-> [valid |-> TRUE, utcHour |-> 23],
         marketVolatility |-> Def(150)]) }

TimeZones == { 0 }

-----------------------------------------------------------------------------
(* Values of the variables a specification does not use                    *)

IdleCall == args = <<>> /\ ret = Undefined
IdleServer ==
  /\ pc = "idle" /\ req = <<>> /\ userBaseline = Undefined
  /\ policy = getDefaultPolicy /\ tzOffset = 0
  /\ assessment = Undefined /\ auditLog = <<>> /\ events = <<>>
  /\ riskResult = Undefined /\ result = Undefined /\ callLog = <<>>
NewSession ==
  [frames |-> 0, inBand |-> TRUE, recorded |-> FALSE, discarded |-> FALSE,
   simulated |-> FALSE]
IdleFace ==
  /\ now = 0 /\ isRunning = FALSE /\ fallbackMode = FALSE
  /\ camera = "null" /\ faceMesh = FALSE
  /\ frameInFlight = FALSE
  /\ earWindow = <<>> /\ isBlinking = FALSE /\ blinkStartTime = 0
  /\ blinkEvents = <<>> /\ smoothedEyeAspectRatio = Undefined
  /\ lastMetricTime = 0
  /\ watchdogInterval = Undefined /\ fallbackInterval = Undefined
  /\ callbacks = 0 /\ lastMetrics = Undefined
  /\ session = NewSession
  /\ ticks = 0 /\ frames = 0

-----------------------------------------------------------------------------
(* SpecRisk: calculateRiskScore applied to every combination of inputs     *)

InitRisk ==
  /\ args \in [ signals : SignalsDomain, baseline : Baselines,
                orderContext : OrderContexts, tz : TimeZones ]
  /\ ret = Undefined
  /\ IdleServer
  /\ IdleFace

CallCalculateRiskScore ==
  /\ ret = Undefined
  /\ ret' = Def(calculateRiskScore(args.signals, args.baseline,
                                   args.orderContext, getDefaultPolicy, args.tz))
  /\ UNCHANGED <<args, serverVars, faceVars>>

NextRisk == CallCalculateRiskScore
SpecRisk == InitRisk /\ [][NextRisk]_vars

-----------------------------------------------------------------------------
(* Claims on calculateRiskScore (SpecRisk)                                 *)

Returned == IsDef(ret)

\* C1: for every combination of present and absent modality signals,
\* baseline and order context, the riskScore returned by calculateRiskScore
\* is an integer between 0 and 100.
C1_RiskScoreBounded ==
  Returned => Val(ret).riskScore \in 0..100

\* the clamp to 100 is what bounds the score: a call whose modalities are
\* all stressed under the riskiest order context has returned 100
C1_Witness ==
  /\ Returned
  /\ Val(ret).riskScore = 100
  /\ Val(ret).contextualRisk = 40
  /\ Val(ret).reactionTimeElevated /\ Val(ret).behavioralAnomalies
  /\ Val(ret).voiceStressDetected /\ Val(ret).facialStressDetected

NoList(o) == ~IsDef(o) \/ Val(o) = <<>>
NoModalityPresent(signals) ==
  /\ NoList(signals.stroopTrials)
  /\ NoList(signals.mouseMovements)
  /\ NoList(signals.keystrokeTimings)
  /\ ~IsDef(signals.clickLatency)
  /\ ~IsDef(signals.stressLevel)
  /\ ~IsDef(signals.voiceProsodyFeatures)
  /\ ~IsDef(signals.facialExpressionFeatures)
  /\ ~IsDef(signals.facialMetrics)

\* C4: when no modality input is present in the signals, calculateRiskScore
\* returns confidence 0 and a riskScore equal to the contextual risk of the
\* order context, clamped to [0, 100].
C4_NoModalityGivesContextualRisk ==
  (Returned /\ NoModalityPresent(args.signals)) =>
     /\ Val(ret).confidence.num = 0
     /\ Val(ret).contextualRisk = analyzeContextualFactors(args.orderContext, args.tz)
     /\ Val(ret).riskScore = Min(100, Max(0, Val(ret).contextualRisk))

C4_Witness ==
  /\ Returned
  /\ NoModalityPresent(args.signals)
  /\ IsDef(args.orderContext)
  /\ Val(ret).riskScore = 34

\* C5: with every other signal, the baseline and the order context fixed,
\* raising the self-reported stressLevel from s1 to any s2 >= s1 within
\* 0..10 never lowers the riskScore returned by calculateRiskScore.
C5_SelfReportMonotone ==
  (Returned /\ IsDef(args.signals.stressLevel)) =>
     \A s2 \in Val(args.signals.stressLevel)..MaxStressLevel :
        calculateRiskScore([args.signals EXCEPT !.stressLevel = Def(s2)],
                           args.baseline, args.orderContext, getDefaultPolicy,
                           args.tz).riskScore >= Val(ret).riskScore

\* a call with stress level 3 has returned a score that stress level 9
\* raises strictly
C5_Witness ==
  /\ Returned
  /\ args.signals.stressLevel = Def(3)
  /\ calculateRiskScore([args.signals EXCEPT !.stressLevel = Def(9)],
                        args.baseline, args.orderContext, getDefaultPolicy,
                        args.tz).riskScore > Val(ret).riskScore

FaceNotPresent(signals) ==
  IsDef(signals.facialMetrics) /\ ~Val(signals.facialMetrics).isPresent

\* C9: whenever the signals carry facialMetrics with isPresent = false, the
\* facial modality contributes score 0 and confidence 0 and
\* facialStressDetected is false, whatever the other fields of the signals
\* contain, a legacy facialExpressionFeatures object included.
C9_AbsentFaceScoresZero ==
  (Returned /\ FaceNotPresent(args.signals)) =>
     /\ analyzeFacialExpressions(args.signals).score = 0
     /\ analyzeFacialExpressions(args.signals).confidence = 0
     /\ ~Val(ret).facialStressDetected

-----------------------------------------------------------------------------
(* SpecVerdict: determineVerdict applied to every score and threshold      *)

MaxRiskScore == 100      \* riskScore is clamped to 0..100
MaxRiskThreshold == 100  \* policyUpdateSchema: riskThreshold 0..100

InitVerdict ==
  /\ args \in [ riskScore : 0..MaxRiskScore,
                policy : [ riskThreshold : 0..MaxRiskThreshold,
                           cooldownDuration : {30} ] ]
  /\ ret = Undefined
  /\ IdleServer
  /\ IdleFace

CallDetermineVerdict ==
  /\ ret = Undefined
  /\ ret' = Def(determineVerdict(args.riskScore, args.policy))
  /\ UNCHANGED <<args, serverVars, faceVars>>

NextVerdict == CallDetermineVerdict
SpecVerdict == InitVerdict /\ [][NextVerdict]_vars

\* C2: determineVerdict returns 'block' for every riskScore >= 80 whatever
\* the policy's riskThreshold is (thresholds above 80 included); below 80 it
\* returns 'hold' when riskScore >= riskThreshold and 'go' when
\* riskScore < riskThreshold.
C2_VerdictBands ==
  Returned =>
     /\ (args.riskScore >= 80 => Val(ret) = "block")
     /\ (args.riskScore < 80 /\ args.riskScore >= args.policy.riskThreshold
           => Val(ret) = "hold")
     /\ (args.riskScore < 80 /\ args.riskScore < args.policy.riskThreshold
           => Val(ret) = "go")

\* score 85 under a threshold of 90 has been judged: block
C2_Witness ==
  /\ Returned
  /\ args.riskScore = 85 /\ args.policy.riskThreshold = 90
  /\ Val(ret) = "block"

-----------------------------------------------------------------------------
(* SpecTrade: EmotionGuardService.checkBeforeTrade, one await at a time    *)

TradeSignals ==
  { sg \in SignalsDomain :
      /\ sg.mouseMovements = Undefined
      /\ sg.keystrokeTimings = Undefined
      /\ sg.facialExpressionFeatures = Undefined }

TradeContexts == OrderContexts \ { Undefined }

InitTrade ==
  /\ IdleCall
  /\ pc = "idle" /\ req = <<>>
  /\ userBaseline \in Baselines
  /\ policy = getDefaultPolicy
  /\ tzOffset \in TimeZones
  /\ assessment = Undefined /\ auditLog = <<>> /\ events = <<>>
  /\ riskResult = Undefined /\ result = Undefined /\ callLog = <<>>
  /\ IdleFace

\* lines 84-111: baseline and policy are fetched, the record is created
BeginCheck(signals, orderContext) ==
  /\ pc = "idle"
  /\ req' = [signals |-> signals, orderContext |-> orderContext]
  /\ policy' = getDefaultPolicy
  /\ assessment' = Def([ riskScore |-> 0, verdict |-> "go", reasonTags |-> <<>>,
                         confidence |-> Undefined,
                         facialMetrics |-> Undefined,
                         selfReportStress |->
                           IF Truthy(signals.stressLevel)
                           THEN signals.stressLevel ELSE Undefined ])
  /\ pc' = "created"
  /\ UNCHANGED <<faceVars, args, ret, userBaseline, tzOffset, auditLog, events,
                 riskResult, result, callLog>>

\* lines 113-119
ScoreRisk ==
  /\ pc = "created"
  /\ LET rr == calculateRiskScore(req.signals, userBaseline,
                                  Def(req.orderContext), policy, tzOffset)
     IN  /\ riskResult' = Def(rr)
         /\ callLog' = Append(callLog,
               [ input |-> [signals |-> req.signals, baseline |-> userBaseline,
                            orderContext |-> Def(req.orderContext)],
                 result |-> rr ])
  /\ pc' = "scored"
  /\ UNCHANGED <<faceVars, args, ret, req, userBaseline, policy, tzOffset, assessment,
                 auditLog, events, result>>

\* lines 121-131: verdict, reason tags, updateAssessment
RenderVerdict ==
  /\ pc = "scored"
  /\ LET rr == Val(riskResult)
         verdict == determineVerdict(rr.riskScore, policy)
         reasonTags == generateReasonTags(rr, req.signals)
     IN  assessment' = Def([ Val(assessment) EXCEPT
                               !.riskScore = rr.riskScore,
                               !.verdict = verdict,
                               !.reasonTags = reasonTags,
                               !.confidence = Def(rr.confidence) ])
  /\ pc' = "updated"
  /\ UNCHANGED <<faceVars, args, ret, req, userBaseline, policy, tzOffset, auditLog,
                 events, riskResult, result, callLog>>

\* lines 133-156: Promise.all of the audit log and the real-time event;
\* either write may reject, which rejects checkBeforeTrade
SideEffects(auditOk, eventOk) ==
  /\ pc = "updated"
  /\ LET rr == Val(riskResult)
         verdict == determineVerdict(rr.riskScore, policy)
     IN  /\ auditLog' = IF auditOk
                        THEN Append(auditLog,
                               [ action |-> "assessment_completed",
                                 riskScore |-> rr.riskScore, verdict |-> verdict ])
                        ELSE auditLog
         /\ events' = IF eventOk
                      THEN Append(events,
                             [ eventType |-> "verdict_rendered",
                               riskScore |-> rr.riskScore, verdict |-> verdict ])
                      ELSE events
  /\ pc' = IF auditOk /\ eventOk THEN "logged" ELSE "failed"
  /\ UNCHANGED <<faceVars, args, ret, req, userBaseline, policy, tzOffset, assessment,
                 riskResult, result, callLog>>

\* lines 158-166
ReturnResult ==
  /\ pc = "logged"
  /\ LET rr == Val(riskResult)
         verdict == determineVerdict(rr.riskScore, policy)
     IN  result' = Def([ riskScore |-> rr.riskScore,
                         verdict |-> verdict,
                         reasonTags |-> generateReasonTags(rr, req.signals),
                         confidence |-> rr.confidence,
                         recommendedAction |-> getRecommendedAction(verdict, rr.riskScore),
                         cooldownDuration |-> cooldownFor(verdict, policy) ])
  /\ pc' = "done"
  /\ UNCHANGED <<faceVars, args, ret, req, userBaseline, policy, tzOffset, assessment,
                 auditLog, events, riskResult, callLog>>

NextTrade ==
  \/ /\ pc = "idle"
     /\ \E signals \in TradeSignals, orderContext \in TradeContexts :
           BeginCheck(signals, Val(orderContext))
  \/ ScoreRisk
  \/ RenderVerdict
  \/ \E auditOk \in BOOLEAN, eventOk \in BOOLEAN : SideEffects(auditOk, eventOk)
  \/ ReturnResult
SpecTrade == InitTrade /\ [][NextTrade]_vars

\* C3: in the result of checkBeforeTrade, cooldownDuration is set exactly
\* when the verdict is 'hold', that is when
\* policy.riskThreshold <= riskScore < 80, and then it equals
\* policy.cooldownDuration; for 'go' and 'block' no cooldownDuration is set.
C3_CooldownOnlyOnHold ==
  IsDef(result) =>
     LET r == Val(result)
         isHold == policy.riskThreshold <= r.riskScore /\ r.riskScore < 80
     IN  /\ r.riskScore = Val(riskResult).riskScore
         /\ (r.verdict = "hold") <=> isHold
         /\ IsDef(r.cooldownDuration) <=> isHold
         /\ isHold => r.cooldownDuration = Def(policy.cooldownDuration)

C3_Witness ==
  /\ IsDef(result)
  /\ Val(result).verdict = "hold"
  /\ Val(result).riskScore = 70
  /\ Val(result).cooldownDuration = Def(30)

C3_WitnessBlock ==
  /\ IsDef(result)
  /\ Val(result).verdict = "block"
  /\ Val(result).cooldownDuration = Undefined

-----------------------------------------------------------------------------
(* SpecCalls: a sequence of calls of calculateRiskScore on one service     *)

MaxCalls == 3   \* calls made in one behaviour

NoSignals ==
  [ mouseMovements |-> Undefined, keystrokeTimings |-> Undefined,
    clickLatency |-> Undefined, stroopTrials |-> Undefined,
    stressLevel |-> Undefined, voiceProsodyFeatures |-> Undefined,
    facialExpressionFeatures |-> Undefined, facialMetrics |-> Undefined ]

CallSignals ==
  { [NoSignals EXCEPT !.stressLevel = st, !.stroopTrials = tr] :
      st \in { Undefined, Def(9) },
      tr \in { Undefined, Def(<< [reactionTimeMs |-> 900, correct |-> FALSE] >>) } }

CallContexts ==
  { Undefined,
    Def([leverage |-> Def(20), recentLosses |-> Undefined, currentPnL |-> Undefined,
         timeOfDay |-> [valid |-> TRUE, utcHour |-> 20],
         marketVolatility |-> Undefined]) }

CallInputs ==
  [ signals : CallSignals, baseline : Baselines, orderContext : CallContexts ]

CallTimeZones == { 0, 5 }

InitCalls ==
  /\ IdleCall
  /\ pc = "idle" /\ req = <<>> /\ userBaseline = Undefined
  /\ policy = getDefaultPolicy
  /\ tzOffset \in CallTimeZones
  /\ assessment = Undefined /\ auditLog = <<>> /\ events = <<>>
  /\ riskResult = Undefined /\ result = Undefined /\ callLog = <<>>
  /\ IdleFace

CallAgain(input) ==
  /\ Len(callLog) < MaxCalls
  /\ LET rr == calculateRiskScore(input.signals, input.baseline,
                                  input.orderContext, policy, tzOffset)
     IN  /\ args' = input
         /\ ret' = Def(rr)
         /\ callLog' = Append(callLog, [input |-> input, result |-> rr])
  /\ UNCHANGED <<faceVars, pc, req, userBaseline, policy, tzOffset, assessment,
                 auditLog, events, riskResult, result>>

NextCalls == \E input \in CallInputs : CallAgain(input)
SpecCalls == InitCalls /\ [][NextCalls]_vars

-----------------------------------------------------------------------------
(* Face detection service (src/unnamed/part_006)                           *)
(*                                                                         *)
(* Eye aspect ratios are in units of 0.0001.  A frame result is reduced to *)
(* the average eye aspect ratio computed from its landmarks, or to "no     *)
(* face".  The jaw, brow and gaze metrics and the fps and latency counters *)
(* take no part in blink detection and are left out; the settings keep     *)
(* their default values.                                                   *)

blinkCloseThreshold == 1800   \* settings.blinkCloseThreshold = 0.18
blinkOpenThreshold == 2200    \* settings.blinkOpenThreshold = 0.22
emaAlphaEar == 35             \* settings.emaAlphaEar = 0.35, in percent
earWindowSize == 5
MIN_BLINK_DURATION == 50
MAX_BLINK_DURATION == 500
WatchdogPeriod == 2000        \* setInterval(..., 2000)
WatchdogLimit == 5000         \* timeSinceLastMetric > 5000
FallbackPeriod == 500         \* setInterval(..., 500)
FallbackRetention == 60000    \* fallback keeps the blinks of the last minute
BlinkRetention == 120000      \* detectBlink keeps the blinks of two minutes
BlinkRateWindow == 60000      \* calculateBlinkRate counts one minute

\* alpha * current + (1 - alpha) * previous, rounded to the unit
applyEma(previous, current, alpha) ==
  IF ~IsDef(previous) THEN current
  ELSE (alpha * current + (100 - alpha) * Val(previous) + 50) \div 100

\* earWindow.push(avgEAR); if (length > earWindowSize) earWindow.shift()
pushEar(window, ear) ==
  LET pushed == Append(window, ear)
  IN  IF Len(pushed) > earWindowSize THEN Tail(pushed) ELSE pushed

\* sorted[Math.floor(sorted.length / 2)]
medianEAR(window) ==
  SortSeq(window, LAMBDA a, b : a < b)[(Len(window) \div 2) + 1]

validBlinkDuration_noUpperBound(blinkDuration) ==
  blinkDuration >= MIN_BLINK_DURATION

validBlinkDuration(blinkDuration) ==
  blinkDuration >= MIN_BLINK_DURATION /\ blinkDuration <= MAX_BLINK_DURATION

\* a detector whose two thresholds are exchanged
detectBlink_thresholdsSwapped(eyeAspectRatio, currentTime, st) ==
  IF eyeAspectRatio < blinkOpenThreshold /\ ~st.isBlinking
  THEN [st EXCEPT !.isBlinking = TRUE, !.blinkStartTime = currentTime]
  ELSE IF eyeAspectRatio >= blinkCloseThreshold /\ st.isBlinking
  THEN LET blinkDuration == currentTime - st.blinkStartTime
           pushed == Append(st.blinkEvents, [timestamp |-> currentTime,
                                             duration |-> blinkDuration])
       IN  [st EXCEPT !.isBlinking = FALSE,
              !.blinkEvents =
                 IF validBlinkDuration(blinkDuration)
                 THEN SelectSeq(pushed,
                        LAMBDA b : b.timestamp > currentTime - BlinkRetention)
                 ELSE @]
  ELSE st

\* st holds the fields isBlinking, blinkStartTime and blinkEvents
detectBlink(eyeAspectRatio, currentTime, st) ==
  IF eyeAspectRatio < blinkCloseThreshold /\ ~st.isBlinking
  THEN [st EXCEPT !.isBlinking = TRUE, !.blinkStartTime = currentTime]
  ELSE IF eyeAspectRatio >= blinkOpenThreshold /\ st.isBlinking
  THEN LET blinkDuration == currentTime - st.blinkStartTime
           pushed == Append(st.blinkEvents, [timestamp |-> currentTime,
                                             duration |-> blinkDuration])
       IN  [st EXCEPT !.isBlinking = FALSE,
              !.blinkEvents =
                 IF validBlinkDuration(blinkDuration)
                 THEN SelectSeq(pushed,
                        LAMBDA b : b.timestamp > currentTime - BlinkRetention)
                 ELSE @]
  ELSE st

calculateBlinkRate(history, currentTime) ==
  Len(SelectSeq(history,
        LAMBDA b : b.timestamp > currentTime - BlinkRateWindow))

getDefaultMetrics ==
  [isPresent |-> FALSE, blinkRate |-> 0, eyeAspectRatio |-> 2200]

\* callbacks.forEach(callback => callback(metrics))
Notify(metrics) ==
  lastMetrics' = IF callbacks > 0 THEN Def(metrics) ELSE lastMetrics

-----------------------------------------------------------------------------
(* SpecFace: the service driven by its caller, the camera, the two         *)
(* intervals and the clock                                                 *)

MaxEvents == 4    \* clock steps and camera frames in one behaviour
MaxBlinks == 1    \* a simulated blink is added only below this length

EarValues == { 1000, 2000, 3000 }   \* closed, between the thresholds, open
FrameResults == { Undefined } \cup { Def(ear) : ear \in EarValues }
TickSteps == { 40, 500, 6000 }
InitOutcomes == { "ready", "cameraDenied", "failed" }
SimulatedDurations == { 150, 249 }   \* 150 + Math.random() * 100
SimulatedBlinkRates == { 15, 23 }    \* Math.round(15 + Math.random() * 8)
SimulatedEars == { 2500 }            \* 0.25 + Math.random() * 0.05
\* in hundredths; the ranges drawn by the code lie on one side of every
\* threshold of the facial analyzer, so one value stands for each
SimulatedJawOpenness == 10           \* Math.random() * 0.2
SimulatedBrowFurrow == 25            \* 0.1 + Math.random() * 0.3
SimulatedGazeStability == 80         \* 0.7 + Math.random() * 0.2

InBand(ear) == ear > blinkCloseThreshold /\ ear < blinkOpenThreshold

InitFace == IdleCall /\ IdleServer /\ IdleFace

\* initialize(), lines 92-224; useFaceDetection calls it on its way to
\* startDetection, when detection is not running
Initialize(outcome) ==
  /\ ~isRunning
  /\ CASE outcome = "cameraDenied" ->
            /\ fallbackMode' = TRUE
            /\ UNCHANGED <<camera, faceMesh>>
       [] outcome = "ready" ->
            /\ camera' = "idle" /\ faceMesh' = TRUE
            /\ UNCHANGED fallbackMode
       [] outcome = "failed" ->
            /\ camera' = "null" /\ faceMesh' = FALSE
            /\ UNCHANGED fallbackMode
  /\ UNCHANGED <<engineVars, now, isRunning, frameInFlight, earWindow,
                 isBlinking, blinkStartTime, blinkEvents,
                 smoothedEyeAspectRatio, lastMetricTime, watchdogInterval,
                 fallbackInterval, callbacks, lastMetrics, session, ticks,
                 frames>>

\* startDetection(callback), lines 226-246; a call while running returns
StartDetection ==
  /\ ~isRunning
  /\ callbacks' = callbacks + 1
  /\ isRunning' = TRUE
  /\ blinkEvents' = <<>>
  /\ session' = NewSession
  /\ IF fallbackMode
     THEN /\ fallbackInterval' = Def(now + FallbackPeriod)
          /\ UNCHANGED <<camera, lastMetricTime, watchdogInterval>>
     ELSE IF camera # "null" /\ faceMesh
     THEN /\ camera' = "started"
          /\ lastMetricTime' = now
          /\ watchdogInterval' = Def(now + WatchdogPeriod)
          /\ UNCHANGED fallbackInterval
     ELSE UNCHANGED <<camera, lastMetricTime, watchdogInterval,
                      fallbackInterval>>
  /\ UNCHANGED <<engineVars, now, fallbackMode, faceMesh, frameInFlight,
                 earWindow, isBlinking, blinkStartTime,
                 smoothedEyeAspectRatio, lastMetrics, ticks, frames>>

\* the stop leaves the registered callbacks in place
StopDetection_keepsCallbacks ==
  /\ isRunning
  /\ isRunning' = FALSE
  /\ fallbackInterval' = Undefined
  /\ watchdogInterval' = Undefined
  /\ camera' = IF camera = "started" THEN "idle" ELSE camera
  /\ faceMesh' = FALSE
  /\ UNCHANGED <<engineVars, now, fallbackMode, frameInFlight, earWindow,
                 isBlinking, blinkStartTime, blinkEvents,
                 smoothedEyeAspectRatio, lastMetricTime, lastMetrics, session, callbacks,
                 ticks, frames>>

\* stopDetection(), lines 345-375; useFaceDetection calls it when active
StopDetection ==
  /\ isRunning
  /\ isRunning' = FALSE
  /\ callbacks' = 0
  /\ fallbackInterval' = Undefined
  /\ watchdogInterval' = Undefined
  /\ camera' = IF camera = "started" THEN "idle" ELSE camera
  /\ faceMesh' = FALSE
  /\ UNCHANGED <<engineVars, now, fallbackMode, frameInFlight, earWindow,
                 isBlinking, blinkStartTime, blinkEvents,
                 smoothedEyeAspectRatio, lastMetricTime, lastMetrics, session,
                 ticks, frames>>

\* Camera.onFrame, lines 178-197: the frame is sent to the face mesh
SendFrame ==
  /\ isRunning /\ faceMesh
  /\ camera = "started"
  /\ ~frameInFlight
  /\ ticks + frames < MaxEvents
  /\ frameInFlight' = TRUE
  /\ frames' = frames + 1
  /\ UNCHANGED <<engineVars, now, isRunning, fallbackMode, camera, faceMesh,
                 earWindow, isBlinking, blinkStartTime, blinkEvents,
                 smoothedEyeAspectRatio, lastMetricTime, watchdogInterval,
                 fallbackInterval, callbacks, lastMetrics, session, ticks>>

\* lines 193-195: faceMesh.send() rejects, the frame is dropped
FrameError ==
  /\ frameInFlight
  /\ frameInFlight' = FALSE
  /\ UNCHANGED <<engineVars, now, isRunning, fallbackMode, camera, faceMesh,
                 earWindow, isBlinking, blinkStartTime, blinkEvents,
                 smoothedEyeAspectRatio, lastMetricTime, watchdogInterval,
                 fallbackInterval, callbacks, lastMetrics, session, ticks,
                 frames>>

\* onFaceMeshResults(results), lines 377-441
OnFaceMeshResults(results) ==
  /\ frameInFlight
  /\ frameInFlight' = FALSE
  /\ IF IsDef(results)
     THEN LET window == pushEar(earWindow, Val(results))
              avgEAR == medianEAR(window)
              st == detectBlink(avgEAR, now,
                      [isBlinking |-> isBlinking,
                       blinkStartTime |-> blinkStartTime,
                       blinkEvents |-> blinkEvents])
              smoothed == applyEma(smoothedEyeAspectRatio, avgEAR, emaAlphaEar)
          IN  /\ earWindow' = window
              /\ isBlinking' = st.isBlinking
              /\ blinkStartTime' = st.blinkStartTime
              /\ blinkEvents' = st.blinkEvents
              /\ smoothedEyeAspectRatio' = Def(smoothed)
              /\ Notify([isPresent |-> TRUE,
                         blinkRate |-> calculateBlinkRate(st.blinkEvents, now),
                         eyeAspectRatio |-> smoothed])
              /\ session' = [session EXCEPT
                    !.frames = @ + 1,
                    !.inBand = @ /\ InBand(Val(results)),
                    !.recorded = @ \/ st.blinkEvents # blinkEvents,
                    !.discarded = @ \/ (isBlinking /\ ~st.isBlinking
                                         /\ st.blinkEvents = blinkEvents)]
     ELSE /\ Notify(getDefaultMetrics)
          /\ UNCHANGED <<earWindow, isBlinking, blinkStartTime, blinkEvents,
                         smoothedEyeAspectRatio, session>>
  /\ lastMetricTime' = now
  /\ UNCHANGED <<engineVars, now, isRunning, fallbackMode, camera, faceMesh,
                 watchdogInterval, fallbackInterval, callbacks, ticks, frames>>

\* the failover stops the camera and never starts the simulated stream
WatchdogTick_onlyStopsCamera ==
  /\ IsDef(watchdogInterval) /\ now >= Val(watchdogInterval)
  /\ IF isRunning /\ now - lastMetricTime > WatchdogLimit /\ ~fallbackMode
     THEN /\ camera' = "null"
          /\ watchdogInterval' = Undefined
          /\ faceMesh' = FALSE
          /\ fallbackMode' = TRUE
          /\ UNCHANGED fallbackInterval
     ELSE /\ watchdogInterval' = Def(now + WatchdogPeriod)
          /\ UNCHANGED <<camera, faceMesh, fallbackMode, fallbackInterval>>
  /\ UNCHANGED <<engineVars, now, isRunning, frameInFlight, earWindow,
                 isBlinking, blinkStartTime, blinkEvents,
                 smoothedEyeAspectRatio, lastMetricTime, callbacks,
                 lastMetrics, session, ticks, frames>>

\* the interval of startMediaPipeWatchdog, lines 254-264, with
\* switchToFallbackMode, lines 267-293
WatchdogTick ==
  /\ IsDef(watchdogInterval) /\ now >= Val(watchdogInterval)
  /\ IF isRunning /\ now - lastMetricTime > WatchdogLimit /\ ~fallbackMode
     THEN /\ camera' = "null"
          /\ watchdogInterval' = Undefined
          /\ faceMesh' = FALSE
          /\ fallbackMode' = TRUE
          /\ fallbackInterval' = Def(now + FallbackPeriod)
     ELSE /\ watchdogInterval' = Def(now + WatchdogPeriod)
          /\ UNCHANGED <<camera, faceMesh, fallbackMode, fallbackInterval>>
  /\ UNCHANGED <<engineVars, now, isRunning, frameInFlight, earWindow,
                 isBlinking, blinkStartTime, blinkEvents,
                 smoothedEyeAspectRatio, lastMetricTime, callbacks,
                 lastMetrics, session, ticks, frames>>

\* the interval of startFallbackDetection, lines 297-342
FallbackTick(blink, duration, simulatePresence, baseBlinkRate, baseEar) ==
  /\ IsDef(fallbackInterval) /\ now >= Val(fallbackInterval)
  /\ fallbackInterval' = Def(now + FallbackPeriod)
  /\ IF isRunning
     THEN LET pushed == IF blink
                        THEN Append(blinkEvents, [timestamp |-> now,
                                                  duration |-> duration])
                        ELSE blinkEvents
          IN  /\ blinkEvents' = SelectSeq(pushed,
                    LAMBDA b : now - b.timestamp < FallbackRetention)
              /\ Notify(IF simulatePresence
                        THEN [isPresent |-> TRUE, blinkRate |-> baseBlinkRate,
                              eyeAspectRatio |-> baseEar,
                              jawOpenness |-> SimulatedJawOpenness,
                              browFurrow |-> SimulatedBrowFurrow,
                              gazeStability |-> SimulatedGazeStability]
                        ELSE [isPresent |-> FALSE, blinkRate |-> 0,
                              eyeAspectRatio |-> 0, jawOpenness |-> 0,
                              browFurrow |-> 0, gazeStability |-> 100])
              /\ lastMetricTime' = now
              /\ session' = [session EXCEPT !.simulated = TRUE,
                                            !.recorded = @ \/ blink]
     ELSE UNCHANGED <<blinkEvents, lastMetrics, lastMetricTime, session>>
  /\ UNCHANGED <<engineVars, now, isRunning, fallbackMode, camera, faceMesh,
                 frameInFlight, earWindow, isBlinking, blinkStartTime,
                 smoothedEyeAspectRatio, watchdogInterval, callbacks, ticks,
                 frames>>

\* clearBlinkHistory(), lines 592-594
ClearBlinkHistory ==
  /\ blinkEvents # <<>>
  /\ blinkEvents' = <<>>
  /\ UNCHANGED <<engineVars, now, isRunning, fallbackMode, camera, faceMesh,
                 frameInFlight, earWindow, isBlinking, blinkStartTime,
                 smoothedEyeAspectRatio, lastMetricTime, watchdogInterval,
                 fallbackInterval, callbacks, lastMetrics, session, ticks,
                 frames>>

\* time passes; an interval that is due fires before more time passes, and
\* the firings one step skips are coalesced into one
Tick(step) ==
  /\ ticks + frames < MaxEvents
  /\ ~(IsDef(watchdogInterval) /\ now >= Val(watchdogInterval))
  /\ ~(IsDef(fallbackInterval) /\ now >= Val(fallbackInterval))
  /\ now' = now + step
  /\ ticks' = ticks + 1
  /\ UNCHANGED <<engineVars, isRunning, fallbackMode, camera, faceMesh,
                 frameInFlight, earWindow, isBlinking, blinkStartTime,
                 blinkEvents, smoothedEyeAspectRatio, lastMetricTime,
                 watchdogInterval, fallbackInterval, callbacks, lastMetrics,
                 session, frames>>

NextFace ==
  \/ \E outcome \in InitOutcomes : Initialize(outcome)
  \/ StartDetection
  \/ StopDetection
  \/ SendFrame
  \/ FrameError
  \/ \E results \in FrameResults : OnFaceMeshResults(results)
  \/ WatchdogTick
  \/ \E blink \in BOOLEAN, duration \in SimulatedDurations,
        simulatePresence \in BOOLEAN, baseBlinkRate \in SimulatedBlinkRates,
        baseEar \in SimulatedEars :
       /\ blink => Len(blinkEvents) < MaxBlinks
       /\ FallbackTick(blink, duration, simulatePresence, baseBlinkRate,
                       baseEar)
  \/ ClearBlinkHistory
  \/ \E step \in TickSteps : Tick(step)

SpecFace == InitFace /\ [][NextFace]_vars

\* C7: every blink event held in the history has a duration of 50 to 500
\* ms, and a closed period that ends after less than 50 ms or more than
\* 500 ms leaves the history as it was.
C7_BlinkDurationsInRange ==
  /\ [](\A i \in DOMAIN blinkEvents :
          /\ blinkEvents[i].duration >= 50
          /\ blinkEvents[i].duration <= 500)
  /\ [][ (isBlinking /\ ~isBlinking'
            /\ (now - blinkStartTime < 50 \/ now - blinkStartTime > 500))
         => blinkEvents' = blinkEvents ]_vars

\* the camera stream has recorded a blink of exactly 500 ms
C7_Witness ==
  /\ ~fallbackMode
  /\ Len(blinkEvents) = 1
  /\ blinkEvents[1].duration = 500

\* a closed period of more than 500 ms has ended and the history is empty
C7_WitnessDiscarded ==
  /\ session.discarded /\ ~session.recorded
  /\ ~isBlinking /\ now - blinkStartTime > 500
  /\ blinkEvents = <<>>

\* C8 as stated: a tracking session whose frames all had an eye aspect ratio
\* strictly between the two thresholds has recorded no blink event, whatever
\* the timing of the frames.
C8_InBandSessionRecordsNothing ==
  (session.frames >= 1 /\ session.inBand) => ~session.recorded

\* C8, amended: a tracking session whose frames all had an eye aspect ratio
\* strictly between the two thresholds, and in which the simulated stream
\* has not run, has recorded no blink event and its history is empty.
C8_InBandCameraSessionRecordsNothing ==
  (session.inBand /\ ~session.simulated)
     => (~session.recorded /\ blinkEvents = <<>>)

\* two frames between the thresholds have been processed in a session that
\* inherited a blink in progress from the session before it
C8_Witness ==
  /\ isRunning /\ ~fallbackMode
  /\ session.frames >= 2 /\ session.inBand /\ ~session.simulated
  /\ isBlinking /\ Len(earWindow) > session.frames
  /\ blinkEvents = <<>>

-----------------------------------------------------------------------------
(* AIScoringService (src/unnamed/part_003)                                 *)
(*                                                                         *)
(* The biometric and cognitive primitives are numbers in 0..1, kept in     *)
(* units of 0.0001; <<>> stands for NaN, for which every comparison is     *)
(* false.  stressLevel is in tenths, confidence in hundredths.  A value of *)
(* the external answer is a record tagged with its JSON kind.  The         *)
(* reasoning text of a result is left out.                                 *)

\* the largest r with lo <= r <= hi and r * r <= n
RECURSIVE SqrtSearch(_, _, _)
SqrtSearch(n, lo, hi) ==
  IF lo >= hi THEN lo
  ELSE LET mid == (lo + hi + 1) \div 2
       IN  IF mid * mid <= n THEN SqrtSearch(n, mid, hi)
                             ELSE SqrtSearch(n, lo, mid - 1)

\* absolute differences of neighbours: slice(1).map((p, i) => p - list[i])
Differences(list) == [i \in 1..(Len(list) - 1) |-> list[i + 1] - list[i]]

\* lines 104-114: 1 - (stdDev / mean) / 2, clamped; 0 / 0 is NaN
calculateMouseStabilityAI(movements) ==
  IF Len(movements) < 5 THEN Def(5000)
  ELSE LET total == SumSeq(movements)
           spread == VarianceNum(movements)
       IN  IF total = 0
           THEN IF spread = 0 THEN Undefined ELSE Def(0)
           ELSE IF total < 0 THEN Def(10000)
           ELSE Def(Max(0, Min(10000,
                  10000 - ((SqrtSearch(spread * 10000, 0, 46340) * 100)
                             \div total) \div 2)))

\* lines 119-128: 1 / (1 + variance of the intervals / 1000)
calculateKeystrokeRhythmAI(timings) ==
  IF Len(timings) < 3 THEN Def(5000)
  ELSE LET intervals == Differences(timings)
           scale == 1000 * Len(intervals) * Len(intervals)
       IN  Def((10000 * scale) \div (scale + VarianceNum(intervals)))

\* lines 133-142: variance of the step sizes / 100, clamped
calculateVelocityVariance(movements) ==
  IF Len(movements) < 5 THEN Def(5000)
  ELSE LET steps == Differences(movements)
           velocities == [i \in DOMAIN steps |-> Abs(steps[i])]
       IN  Def(Min(10000, (VarianceNum(velocities) * 100)
                             \div (Len(velocities) * Len(velocities))))

\* lines 147-171: share of the 7-sample windows whose variance exceeds 5
detectMicroTremors(movements) ==
  IF Len(movements) < 10 THEN Def(0)
  ELSE LET centres == 4..(Len(movements) - 3)
           tremorCount == Cardinality({ c \in centres :
              VarianceNum(SubSeq(movements, c - 3, c + 3)) > 5 * 49 })
       IN  Def(Min(10000, (tremorCount * 10000) \div (Len(movements) - 6)))

\* lines 77-99; signals.mouseMovements || []
analyzeBiometricPatterns(signals) ==
  LET mouseMovements == IF IsDef(signals.mouseMovements)
                        THEN Val(signals.mouseMovements) ELSE <<>>
      keystrokeTimings == IF IsDef(signals.keystrokeTimings)
                          THEN Val(signals.keystrokeTimings) ELSE <<>>
  IN  [ mouseStability |-> calculateMouseStabilityAI(mouseMovements),
        keystrokeRhythm |-> calculateKeystrokeRhythmAI(keystrokeTimings),
        velocityVariance |-> calculateVelocityVariance(mouseMovements),
        microTremors |-> detectMicroTremors(mouseMovements) ]

\* analyzeCognitivePerformance of AIScoringService, lines 176-210
analyzeCognitiveProfile(signals) ==
  LET stroopTrials == IF IsDef(signals.stroopTrials)
                      THEN Val(signals.stroopTrials) ELSE <<>>
      n == Len(stroopTrials)
      times == ReactionTimes(stroopTrials)
  IN  IF n = 0
      THEN [ reactionSpeed |-> Def(5000), accuracy |-> Def(5000),
             consistency |-> Def(5000), attentionStability |-> Def(5000) ]
      ELSE LET accuracy == (CountCorrect(stroopTrials) * 10000) \div n
               consistency == Max(0, Min(10000,
                  10000 - VarianceNum(times) \div (100 * n * n)))
           IN  [ reactionSpeed |-> Def(Max(0, Min(10000,
                    10000 - ((SumSeq(times) - 500 * n) * 5) \div n))),
                 accuracy |-> Def(accuracy),
                 consistency |-> Def(consistency),
                 attentionStability |->
                    Def((accuracy * 6 + consistency * 4) \div 10) ]

\* x.toFixed(3) read back by parseFloat: rounded to thousandths
toFixed3(x) == IF IsDef(x) THEN Def(((Val(x) + 5) \div 10) * 10) ELSE x

\* the analysisContext of performAIAnalysis, lines 223-254 (the baseline
\* entry is read by nothing in the service)
analysisContext(signals, biometric, cognitive, orderContext) ==
  [ biometric |-> [f \in DOMAIN biometric |-> toFixed3(biometric[f])],
    cognitive |-> [f \in DOMAIN cognitive |-> toFixed3(cognitive[f])],
    selfReport |-> IF Truthy(signals.stressLevel) THEN signals.stressLevel
                   ELSE Undefined,
    facialMetrics |->
      IF IsDef(signals.facialMetrics)
      THEN LET fm == Val(signals.facialMetrics)
           IN  Def([ blinkRate |-> IF fm.blinkRate # 0 THEN fm.blinkRate
                                   ELSE 15,
                     browFurrowing |-> fm.browFurrow,
                     jawTension |-> fm.jawOpenness,
                     gazeStability |-> IF fm.gazeStability # 0
                                       THEN fm.gazeStability ELSE 100 ])
      ELSE Undefined,
    orderContext |->
      IF IsDef(orderContext)
      THEN Def([ leverage |-> Val(orderContext).leverage,
                 marketVolatility |-> Val(orderContext).marketVolatility ])
      ELSE Undefined ]

\* lines 330-460; biometric and cognitive are <<>> (null) or <<pattern>>
performFallbackAnalysis(context, biometric, cognitive, signals) ==
  LET bio == IF IsDef(biometric) THEN Val(biometric) ELSE context.biometric
      cog == IF IsDef(cognitive) THEN Val(cognitive) ELSE context.cognitive
      Below(x, limit) == IsDef(x) /\ Val(x) < limit
      Above(x, limit) == IsDef(x) /\ Val(x) > limit
      selfReport == context.selfReport
      facial == context.facialMetrics
      order == context.orderContext
      checks ==
        << [on |-> Below(bio.mouseStability, 4000), add |-> 20,
            tag |-> "Erratic mouse movements"],
           [on |-> Above(bio.velocityVariance, 6000), add |-> 15,
            tag |-> "High movement variability"],
           [on |-> Above(bio.microTremors, 3000), add |-> 25,
            tag |-> "Micro-tremors detected"],
           [on |-> Below(bio.keystrokeRhythm, 4000), add |-> 10,
            tag |-> "Irregular typing rhythm"],
           [on |-> Below(cog.accuracy, 7000), add |-> 20,
            tag |-> "Reduced cognitive accuracy"],
           [on |-> Below(cog.consistency, 5000), add |-> 15,
            tag |-> "Inconsistent reaction times"],
           [on |-> Below(cog.attentionStability, 6000), add |-> 20,
            tag |-> "Attention instability"],
           [on |-> Truthy(selfReport) /\ Val(selfReport) > 6,
            add |-> IF IsDef(selfReport) THEN (Val(selfReport) - 5) * 8 ELSE 0,
            tag |-> "High self-reported stress"],
           [on |-> IsDef(facial) /\ Val(facial).blinkRate > 25, add |-> 10,
            tag |-> "Elevated blink rate"],
           [on |-> IsDef(facial) /\ Val(facial).browFurrowing > 50, add |-> 15,
            tag |-> "Brow furrowing detected"],
           [on |-> IsDef(facial) /\ Val(facial).gazeStability < 70, add |-> 10,
            tag |-> "Unstable gaze pattern"] >>
      fired == SelectSeq(checks, LAMBDA c : c.on)
      highLeverage == /\ IsDef(order) /\ IsDef(Val(order).leverage)
                      /\ Val(Val(order).leverage) > 10
      stressScore == SumSeq([i \in DOMAIN fired |-> fired[i].add])
                       + (IF highLeverage THEN 5 ELSE 0)
      riskFactors == IF highLeverage THEN << "High leverage trading" >>
                     ELSE <<>>
      finalStressLevel == Max(0, Min(100, stressScore))
      confidence == 70
        + (IF Above(bio.mouseStability, 0) \/ Above(cog.accuracy, 0)
           THEN 10 ELSE 0)
        + (IF Truthy(selfReport) THEN 15 ELSE 0)
        + (IF IsDef(facial) THEN 5 ELSE 0)
  IN  [ threw |-> FALSE,
        stressLevel |-> Def(finalStressLevel),
        confidence |-> Def(Max(30, Min(100, confidence))),
        verdict |-> IF finalStressLevel >= 75 \/ Above(bio.microTremors, 4000)
                    THEN "block"
                    ELSE IF finalStressLevel >= 50 \/ Len(riskFactors) > 1
                    THEN "hold" ELSE "go",
        primaryIndicators |->
           [t |-> "array", v |-> [i \in DOMAIN fired |-> fired[i].tag]],
        riskFactors |-> [t |-> "array", v |-> riskFactors],
        anomalies |->
           [t |-> "array",
            v |-> IF Above(bio.microTremors, 3000)
                  THEN << "Unusual tremor patterns" >> ELSE <<>>] ]

\* lines 312-313: Math.max(0, Math.min(hi, value || fallbackValue)) for a
\* value of the parsed answer; text that is no number gives NaN
sanitizeNumber(value, fallbackValue, hi) ==
  IF value.t = "undefined" \/ (value.t = "number" /\ value.v = 0)
  THEN Def(fallbackValue)
  ELSE IF value.t = "number" THEN Def(Max(0, Min(hi, value.v)))
  ELSE Undefined

\* lines 315-318: Array.isArray(value) ? value : []
sanitizeList(value) ==
  IF value.t = "array" THEN value ELSE [t |-> "array", v |-> <<>>]

\* the external call fails and the exception leaves the method
performOpenAIAnalysis_rethrows(context, outcome) ==
  IF outcome.kind # "answer"
  THEN [ threw |-> TRUE ]
  ELSE LET aiResponse == outcome.content
       IN  [ threw |-> FALSE,
             stressLevel |-> sanitizeNumber(aiResponse.stressLevel, 50, 100),
             confidence |-> sanitizeNumber(aiResponse.confidence, 50, 100),
             verdict |-> IF /\ aiResponse.verdict.t = "string"
                            /\ aiResponse.verdict.v \in {"go", "hold", "block"}
                         THEN aiResponse.verdict.v ELSE "hold",
             primaryIndicators |-> sanitizeList(aiResponse.primaryIndicators),
             riskFactors |-> sanitizeList(aiResponse.riskFactors),
             anomalies |-> sanitizeList(aiResponse.anomalies) ]

\* lines 266-325: fetch, response.json(), data.choices[0].message.content and
\* JSON.parse all sit in the try; whatever they throw lands in the catch
performOpenAIAnalysis(context, outcome) ==
  IF outcome.kind # "answer"
  THEN performFallbackAnalysis(context, Undefined, Undefined, Undefined)
  ELSE LET aiResponse == outcome.content
       IN  [ threw |-> FALSE,
             stressLevel |-> sanitizeNumber(aiResponse.stressLevel, 50, 100),
             confidence |-> sanitizeNumber(aiResponse.confidence, 50, 100),
             verdict |-> IF /\ aiResponse.verdict.t = "string"
                            /\ aiResponse.verdict.v \in {"go", "hold", "block"}
                         THEN aiResponse.verdict.v ELSE "hold",
             primaryIndicators |-> sanitizeList(aiResponse.primaryIndicators),
             riskFactors |-> sanitizeList(aiResponse.riskFactors),
             anomalies |-> sanitizeList(aiResponse.anomalies) ]

\* lines 45-72 with performAIAnalysis, lines 215-261
analyzeStressSignals(signals, orderContext, openaiApiKey, outcome) ==
  LET biometricPattern == analyzeBiometricPatterns(signals)
      cognitiveProfile == analyzeCognitiveProfile(signals)
      context == analysisContext(signals, biometricPattern, cognitiveProfile,
                                 orderContext)
  IN  IF openaiApiKey
      THEN performOpenAIAnalysis(context, outcome)
      ELSE performFallbackAnalysis(context, Def(biometricPattern),
                                   Def(cognitiveProfile), Def(signals))

-----------------------------------------------------------------------------
(* Specification SpecAI: one call of analyzeStressSignals                  *)

\* short, motionless (mean 0), erratic and slightly jittery traces
MouseTraces ==
  { Undefined, Def(<<3, 3, 3>>),
    Def(<<0, 0, 0, 0, 0, 0, 0, 0, 0, 0>>),
    Def(<<0, 0, 0, 0, 30, 0, 0, 0, 0, 30>>),
    Def(<<4, 6, 4, 6, 4, 6, 4, 6, 4, 6>>) }

KeystrokeTraces ==
  { Undefined, Def(<<0, 100, 200, 300>>), Def(<<0, 50, 400, 450>>) }

AISignals ==
  [ mouseMovements : MouseTraces, keystrokeTimings : KeystrokeTraces,
    stroopTrials : TrialLists,
    stressLevel : { Undefined, Def(0), Def(7), Def(MaxStressLevel) },
    facialMetrics : FacialMetricsOptions \cup
      { Def([isPresent |-> TRUE, blinkRate |-> 0, eyeAspectRatio |-> 30,
             jawOpenness |-> 0, browFurrow |-> 0, gazeStability |-> 0]) } ]

\* ways the external call fails inside the try of performOpenAIAnalysis
FailureKinds ==
  { "networkError", "bodyNotJson", "noChoices", "contentNotJson",
    "contentNull" }

\* parsed answers: as asked for, out of range, and of the wrong kinds
AIAnswers ==
  { [ stressLevel |-> [t |-> "number", v |-> 30],
      confidence |-> [t |-> "number", v |-> 80],
      verdict |-> [t |-> "string", v |-> "go"],
      primaryIndicators |-> [t |-> "array", v |-> << "Calm" >>],
      riskFactors |-> [t |-> "array", v |-> <<>>],
      anomalies |-> [t |-> "array", v |-> <<>>] ],
    [ stressLevel |-> [t |-> "number", v |-> 150],
      confidence |-> [t |-> "number", v |-> -20],
      verdict |-> [t |-> "string", v |-> "maybe"],
      primaryIndicators |-> [t |-> "undefined"],
      riskFactors |-> [t |-> "undefined"],
      anomalies |-> [t |-> "undefined"] ],
    [ stressLevel |-> [t |-> "string", v |-> "high"],
      confidence |-> [t |-> "undefined"],
      verdict |-> [t |-> "undefined"],
      primaryIndicators |-> [t |-> "string", v |-> "none"],
      riskFactors |-> [t |-> "string", v |-> "none"],
      anomalies |-> [t |-> "string", v |-> "none"] ] }

AIOutcomes ==
  { [kind |-> k] : k \in FailureKinds }
    \cup { [kind |-> "answer", content |-> a] : a \in AIAnswers }

InitAI ==
  /\ \E signals \in AISignals, orderContext \in OrderContexts,
        openaiApiKey \in BOOLEAN :
       \E outcome \in IF openaiApiKey THEN AIOutcomes
                      ELSE { [kind |-> "notCalled"] } :
          args = [ signals |-> signals, orderContext |-> orderContext,
                   openaiApiKey |-> openaiApiKey, outcome |-> outcome ]
  /\ ret = Undefined
  /\ IdleServer
  /\ IdleFace

CallAnalyzeStressSignals ==
  /\ ret = Undefined
  /\ ret' = Def(analyzeStressSignals(args.signals, args.orderContext,
                                     args.openaiApiKey, args.outcome))
  /\ UNCHANGED <<args, serverVars, faceVars>>

NextAI == CallAnalyzeStressSignals

SpecAI == InitAI /\ [][NextAI]_vars

AICallFailed ==
  /\ IsDef(ret)
  /\ args.openaiApiKey
  /\ args.outcome.kind \in FailureKinds

\* C10: with an API key configured, when the external AI call fails (network
\* error, a body that is not JSON, a body without choices, content that is
\* not JSON), analyzeStressSignals still completes without an error, and its
\* result has a verdict among go, hold and block, a stressLevel within 0..10,
\* a confidence within 0..1 and lists as primaryIndicators, riskFactors and
\* anomalies.
C10_FailedCallStillAnswers ==
  AICallFailed =>
    LET r == Val(ret)
    IN  /\ ~r.threw
        /\ r.verdict \in {"go", "hold", "block"}
        /\ IsDef(r.stressLevel) /\ Val(r.stressLevel) \in 0..100
        /\ IsDef(r.confidence) /\ Val(r.confidence) \in 0..100
        /\ r.primaryIndicators.t = "array"
        /\ r.riskFactors.t = "array"
        /\ r.anomalies.t = "array"

\* a failed call on heavily stressed signals: the heuristic total passes 10
\* and is clamped, and the trade is blocked
C10_Witness ==
  /\ AICallFailed
  /\ args.outcome.kind = "bodyNotJson"
  /\ ~Val(ret).threw
  /\ Val(ret).verdict = "block"
  /\ Val(ret).stressLevel = Def(100)
  /\ Len(Val(ret).primaryIndicators.v) >= 6

-----------------------------------------------------------------------------
(* SpecCognitive: analyzeCognitivePerformance over trials and baselines    *)

CognitiveTrialKinds ==
  [ reactionTimeMs : {400, 500, 700, 900}, correct : BOOLEAN ]

\* reactionTimeMs and reactionTimeStdDev unset, zero or set; accuracy in
\* hundredths
CognitiveBaselines ==
  { Undefined } \cup
  { Def([reactionTimeMs |-> m, reactionTimeStdDev |-> sd, accuracy |-> acc,
         mouseStability |-> Undefined, keystrokeRhythm |-> Undefined]) :
      m \in {Undefined, Def(0), Def(500), Def(600)},
      sd \in {Undefined, Def(0), Def(50), Def(100)},
      acc \in {Undefined, Def(90)} }

InitCognitive ==
  /\ \E trials \in SeqsUpTo(CognitiveTrialKinds, MaxTrials),
        baseline \in CognitiveBaselines :
       args = [ signals |-> [NoSignals EXCEPT !.stroopTrials = Def(trials)],
                baseline |-> baseline ]
  /\ ret = Undefined
  /\ IdleServer
  /\ IdleFace

CallAnalyzeCognitivePerformance ==
  /\ ret = Undefined
  /\ ret' = Def(analyzeCognitivePerformance(args.signals, args.baseline))
  /\ UNCHANGED <<args, serverVars, faceVars>>

NextCognitive == CallAnalyzeCognitivePerformance
SpecCognitive == InitCognitive /\ [][NextCognitive]_vars

\* z = (mean - baselineMean) / stddev > 2 over the trials of the call, with
\* stddev 50 when the baseline leaves it unset or zero: stated on the sums,
\* sum - n * baselineMean > 2 * stddev * n
ReactionTimeZAboveTwo ==
  LET trials == Val(args.signals.stroopTrials)
      mean == BaselineField(args.baseline, "reactionTimeMs")
      dev == BaselineField(args.baseline, "reactionTimeStdDev")
      stddev == IF IsDef(dev) /\ Val(dev) # 0 THEN Val(dev) ELSE 50
  IN  /\ trials # <<>>
      /\ IsDef(mean) /\ Val(mean) # 0
      /\ SumSeq(ReactionTimes(trials)) - Len(trials) * Val(mean)
           > 2 * stddev * Len(trials)

C11_WitnessCapped ==
  /\ IsDef(ret)
  /\ ReactionTimeZAboveTwo
  /\ BaselineField(args.baseline, "reactionTimeStdDev") = Def(0)
  /\ Val(ret).accuracyLow
  /\ Val(ret).score = 60

-----------------------------------------------------------------------------
(* Claims on the side-effect writes of checkBeforeTrade (SpecTrade)        *)

\* the verdict was rendered, the real-time event was written and the audit
\* write rejected
AuditWriteRejected ==
  /\ pc \in {"logged", "failed", "done"}
  /\ auditLog = <<>>
  /\ events # <<>>

\* C12: a failure of the audit-log write after the verdict has been
\* determined does not fail the assessment; the caller still receives the
\* complete result with the computed riskScore and verdict.
C12_AuditFailureSwallowed ==
  AuditWriteRejected => pc # "failed"

\* checkBeforeTrade returns as soon as its return statement can run; nothing
\* makes the storage writes of lines 134-156 settle
SpecTradeReturns == SpecTrade /\ WF_vars(ReturnResult)

\* C13: once the verdict is determined, the result is returned to the caller
\* even if the audit-log write and the real-time event write are still
\* pending or never complete.
C13_ResultReturnedWithoutWaiting ==
  (pc = "updated") ~> IsDef(result)

-----------------------------------------------------------------------------
(* Claims on the watchdog and the failover (SpecFace)                      *)

\* detection runs on the camera stream and the last processed frame result
\* is more than 5 seconds old
StalledOnCamera ==
  /\ isRunning /\ ~fallbackMode /\ camera = "started"
  /\ now - lastMetricTime > WatchdogLimit

\* the step is a firing of the watchdog interval while detection runs
WatchdogFires ==
  /\ IsDef(watchdogInterval) /\ now >= Val(watchdogInterval)
  /\ watchdogInterval' # watchdogInterval
  /\ isRunning /\ isRunning'

\* the step is a firing of the fallback interval while detection runs
FallbackFires ==
  /\ IsDef(fallbackInterval) /\ now >= Val(fallbackInterval)
  /\ fallbackInterval' # fallbackInterval
  /\ isRunning /\ isRunning'

\* C14: while detection runs on the camera stream and no frame result has
\* been processed for more than 5 seconds, the next firing of the watchdog
\* (every 2 s) switches the service to fallback mode and starts the
\* simulated stream, whose firings deliver metrics to the registered
\* callback.
C14_WatchdogFailsOver ==
  /\ [][(StalledOnCamera /\ WatchdogFires) =>
           /\ fallbackMode' /\ camera' = "null" /\ ~faceMesh'
           /\ watchdogInterval' = Undefined
           /\ fallbackInterval' = Def(now + FallbackPeriod)
           /\ callbacks' >= 1]_vars
  /\ [][(fallbackMode /\ FallbackFires) =>
           /\ IsDef(lastMetrics') /\ lastMetricTime' = now
           /\ session'.simulated]_vars
  /\ [](IsDef(watchdogInterval) =>
           Val(watchdogInterval) <= lastMetricTime + WatchdogLimit + WatchdogPeriod)

\* a session that processed a camera frame, stalled, was switched by the
\* watchdog and has received a simulated sample
C14_Witness ==
  /\ isRunning /\ fallbackMode /\ camera = "null"
  /\ watchdogInterval = Undefined
  /\ session.frames >= 1 /\ session.simulated
  /\ IsDef(lastMetrics) /\ ~Val(lastMetrics).isPresent
  /\ lastMetricTime = now

\* the signals of an assessment that carries the sample as its facialMetrics
\* (eyeAspectRatio brought from 0.0001 to hundredths)
SampleSignals(metrics) ==
  [NoSignals EXCEPT !.facialMetrics =
     Def([ isPresent |-> metrics.isPresent,
           blinkRate |-> metrics.blinkRate,
           eyeAspectRatio |-> metrics.eyeAspectRatio \div 100,
           jawOpenness |-> metrics.jawOpenness,
           browFurrow |-> metrics.browFurrow,
           gazeStability |-> metrics.gazeStability ])]

\* C15: every FaceMetrics sample the simulated stream emits while the
\* service is in fallback mode, when scored by the facial modality analyzer,
\* yields facial score 0 and facialStressDetected = false.
C15_SimulatedSamplesScoreZero ==
  [][(fallbackMode /\ FallbackFires) =>
        LET scored == analyzeFacialExpressions(SampleSignals(Val(lastMetrics')))
        IN  scored.score = 0 /\ ~scored.stressDetected]_vars

\* C16: stopDetection discards the filter state of the tracking session (EMA
\* values, median-filter window, blink-in-progress flag and start time,
\* blink history), so a session started afterwards, before it has processed
\* a frame of its own, holds no filter state of an earlier session.
C16_NewSessionStartsClean ==
  (isRunning /\ session.frames = 0 /\ ~session.simulated) =>
     /\ earWindow = <<>>
     /\ smoothedEyeAspectRatio = Undefined
     /\ ~isBlinking
     /\ blinkEvents = <<>>

-----------------------------------------------------------------------------
(* SpecPolicy: PUT /api/policies/:policyId (src/unnamed/part_000)          *)

\* policyUpdateSchema, lines 127-142: the two fields the verdict engine
\* reads, each optional
policyUpdateSchema(updates) ==
  /\ IsDef(updates.riskThreshold) =>
        (Val(updates.riskThreshold) >= 0 /\ Val(updates.riskThreshold) <= 100)
  /\ IsDef(updates.cooldownDuration) =>
        (Val(updates.cooldownDuration) >= 15
           /\ Val(updates.cooldownDuration) <= 120)

\* lines 372-395 with storage.updatePolicy: .set({ ...policy }) on the row
putPolicy(row, updates) ==
  IF policyUpdateSchema(updates)
  THEN [ status |-> 200,
         policy |-> [ riskThreshold |->
                        IF IsDef(updates.riskThreshold)
                        THEN Val(updates.riskThreshold) ELSE row.riskThreshold,
                      cooldownDuration |->
                        IF IsDef(updates.cooldownDuration)
                        THEN Val(updates.cooldownDuration)
                        ELSE row.cooldownDuration ] ]
  ELSE [ status |-> 400, policy |-> row ]

PolicyUpdates ==
  [ riskThreshold : { Undefined } \cup { Def(t) : t \in -1..101 },
    cooldownDuration : { Undefined, Def(14), Def(15), Def(120), Def(121) } ]

InitPolicy ==
  /\ \E updates \in PolicyUpdates :
       args = [ row |-> getDefaultPolicy, updates |-> updates ]
  /\ ret = Undefined
  /\ IdleServer
  /\ IdleFace

CallPutPolicy ==
  /\ ret = Undefined
  /\ ret' = Def(putPolicy(args.row, args.updates))
  /\ UNCHANGED <<args, serverVars, faceVars>>

NextPolicy == CallPutPolicy
SpecPolicy == InitPolicy /\ [][NextPolicy]_vars

\* C17: a policy update that would set riskThreshold >= 80 (the block
\* ceiling) is rejected when the policy is updated, so that every stored
\* policy an assessment can be evaluated against has riskThreshold < 80.
C17_ThresholdBelowBlockCeiling ==
  IsDef(ret) =>
     /\ (IsDef(args.updates.riskThreshold)
           /\ Val(args.updates.riskThreshold) >= 80) => Val(ret).status = 400
     /\ Val(ret).policy.riskThreshold < 80

\* something is armed that will call the callbacks: the camera with its
\* watchdog, the simulated stream, or a frame still being processed
SampleSourceArmed ==
  \/ IsDef(watchdogInterval) /\ camera = "started"
  \/ IsDef(fallbackInterval)
  \/ frameInFlight

\* C18: face detection never dead-ends: after any sequence of initialize,
\* startDetection, stopDetection and camera failures, whenever detection is
\* running on an initialized service, a source of samples is armed, so that
\* a metrics sample is eventually delivered to the registered callback from
\* the camera stream or from the simulated fallback stream.
C18_NeverDeadEnds ==
  (isRunning /\ camera # "null") => SampleSourceArmed

-----------------------------------------------------------------------------
(* Claims on the modality analyzers (SpecRisk)                             *)

NoEvidence(analysis) == analysis.score = 0 /\ analysis.confidence = 0

\* C19: every modality analyzer (cognitive, behavioral, self-report, voice,
\* facial) whose input is absent from the signals returns the no-evidence
\* result, score 0 and confidence 0.
C19_AbsentInputGivesNoEvidence ==
  Returned =>
    LET signals == args.signals
    IN  /\ ~IsDef(signals.stroopTrials) =>
             NoEvidence(analyzeCognitivePerformance(signals, args.baseline))
        /\ (/\ ~IsDef(signals.mouseMovements)
            /\ ~IsDef(signals.keystrokeTimings)
            /\ ~IsDef(signals.clickLatency)) =>
             NoEvidence(analyzeBehavioralBiometrics(signals, args.baseline))
        /\ ~IsDef(signals.stressLevel) =>
             NoEvidence(analyzeSelfReport(signals))
        /\ ~IsDef(signals.voiceProsodyFeatures) =>
             NoEvidence(analyzeVoiceProsody(signals))
        /\ (/\ ~IsDef(signals.facialExpressionFeatures)
            /\ ~IsDef(signals.facialMetrics)) =>
             NoEvidence(analyzeFacialExpressions(signals))

-----------------------------------------------------------------------------
(* Claims on malformed answers of the external analyzer (SpecAI)           *)

\* a field of the parsed answer is missing or of the wrong kind
ShapeViolated(aiResponse) ==
  \/ aiResponse.stressLevel.t # "number"
  \/ aiResponse.confidence.t # "number"
  \/ aiResponse.verdict.t # "string"
  \/ aiResponse.primaryIndicators.t # "array"
  \/ aiResponse.riskFactors.t # "array"
  \/ aiResponse.anomalies.t # "array"

\* C20: whenever the external analyzer answers but its response violates
\* the expected shape (stressLevel, confidence, verdict or an indicator list
\* missing or of the wrong kind), the result returned by
\* analyzeStressSignals is the one the local fallback heuristic computes
\* from the locally computed primitives.
C20_MalformedAnswerFallsBack ==
  (/\ IsDef(ret) /\ args.openaiApiKey
   /\ args.outcome.kind = "answer"
   /\ ShapeViolated(args.outcome.content)) =>
     Val(ret) = performFallbackAnalysis(
                  analysisContext(args.signals,
                                  analyzeBiometricPatterns(args.signals),
                                  analyzeCognitiveProfile(args.signals),
                                  args.orderContext),
                  Undefined, Undefined, Undefined)

-----------------------------------------------------------------------------
(* SpecFacialScore: calculateFacialExpressionScoreFromMetrics              *)
(* (emotionGuard.ts); metrics fields and the score in hundredths           *)

\* the sum of the indicator weights is returned as it is
calculateFacialExpressionScoreFromMetrics_uncapped(metrics) ==
  IF ~IsDef(metrics) \/ ~Val(metrics).isPresent THEN 0
  ELSE LET m == Val(metrics)
       IN  (IF m.blinkRate < 8 \/ m.blinkRate > 25 THEN 30 ELSE 0)
         + (IF m.browFurrow > 60 THEN 35 ELSE IF m.browFurrow > 30 THEN 15 ELSE 0)
         + (IF m.gazeStability < 50 THEN 25
            ELSE IF m.gazeStability < 70 THEN 10 ELSE 0)
         + (IF m.eyeAspectRatio < 2 THEN 20 ELSE 0)
         + (IF m.jawOpenness > 70 THEN 10 ELSE 0)

\* lines 372-394
calculateFacialExpressionScoreFromMetrics(metrics) ==
  IF ~IsDef(metrics) \/ ~Val(metrics).isPresent THEN 0
  ELSE LET m == Val(metrics)
       IN  Min(100,
           (IF m.blinkRate < 8 \/ m.blinkRate > 25 THEN 30 ELSE 0)
         + (IF m.browFurrow > 60 THEN 35 ELSE IF m.browFurrow > 30 THEN 15 ELSE 0)
         + (IF m.gazeStability < 50 THEN 25
            ELSE IF m.gazeStability < 70 THEN 10 ELSE 0)
         + (IF m.eyeAspectRatio < 2 THEN 20 ELSE 0)
         + (IF m.jawOpenness > 70 THEN 10 ELSE 0))

\* missing, or a value on every side of every threshold
FacialScoreInputs ==
  { Undefined } \cup
  { Def(m) : m \in [ isPresent : BOOLEAN, blinkRate : {5, 12, 30},
                     browFurrow : {12, 50, 85}, gazeStability : {20, 60, 90},
                     eyeAspectRatio : {1, 28}, jawOpenness : {10, 80} ] }

InitFacialScore ==
  /\ args \in [ metrics : FacialScoreInputs ]
  /\ ret = Undefined
  /\ IdleServer
  /\ IdleFace

CallFacialScore ==
  /\ ret = Undefined
  /\ ret' = Def(calculateFacialExpressionScoreFromMetrics(args.metrics))
  /\ UNCHANGED <<args, serverVars, faceVars>>

NextFacialScore == CallFacialScore
SpecFacialScore == InitFacialScore /\ [][NextFacialScore]_vars

\* C21: calculateFacialExpressionScoreFromMetrics returns 0 whenever the
\* metrics are missing or isPresent is false, and for every metrics value
\* with isPresent = true a score within [0, 1], the summed indicator weights
\* being capped at 1.0.
C21_FacialScoreWithinUnit ==
  IsDef(ret) =>
     /\ (~IsDef(args.metrics) \/ ~Val(args.metrics).isPresent) => Val(ret) = 0
     /\ Val(ret) >= 0 /\ Val(ret) <= 100

\* the stressed metrics of the test: the weights add up to 1.2 and the score
\* returned is 1.0
C21_Witness ==
  /\ IsDef(ret)
  /\ args.metrics = Def([ isPresent |-> TRUE, blinkRate |-> 30,
                          browFurrow |-> 85, gazeStability |-> 20,
                          eyeAspectRatio |-> 1, jawOpenness |-> 80 ])
  /\ Val(ret) = 100

\* C22: every modality sub-score stays within its ceiling for all inputs:
\* cognitive in [0, 60], behavioral in [0, 35], self-report in
\* {0, 10, 25, 40}, voice in [0, 25], facial in [0, 30] for both input
\* shapes, contextual in [0, 40].
C22_SubScoresWithinCeilings ==
  Returned =>
    LET signals == args.signals
    IN  /\ analyzeCognitivePerformance(signals, args.baseline).score \in 0..60
        /\ analyzeBehavioralBiometrics(signals, args.baseline).score \in 0..35
        /\ analyzeSelfReport(signals).score \in {0, 10, 25, 40}
        /\ analyzeVoiceProsody(signals).score \in 0..25
        /\ analyzeFacialExpressions(signals).score \in 0..30
        /\ (IsDef(signals.facialExpressionFeatures) =>
              analyzeFacialExpressions(signals).score <= 25)
        /\ analyzeContextualFactors(args.orderContext, args.tz) \in 0..40

\* a call whose behavioral, voice, facial-metrics and contextual indicators
\* each add up to more than the ceiling, which is what is returned
C22_Witness ==
  /\ Returned
  /\ analyzeBehavioralBiometrics(args.signals, args.baseline).score = 35
  /\ analyzeVoiceProsody(args.signals).score = 25
  /\ ~IsDef(args.signals.facialExpressionFeatures)
  /\ analyzeFacialExpressions(args.signals).score = 30
  /\ Val(ret).contextualRisk = 40

-----------------------------------------------------------------------------
(* SpecBlink: one processed frame, detectBlink applied to the detection    *)
(* state of a session that has been running for a while                    *)

\* histories recorded at 1000 ms and 1500 ms, the frame seen at currentTime,
\* a closure begun 40, 100 or 600 ms before it
BlinkCalls ==
  { [ eyeAspectRatio |-> ear, currentTime |-> t,
      st |-> [ isBlinking |-> b, blinkStartTime |-> t - ago,
               blinkEvents |-> h ] ] :
      ear \in EarValues,
      t \in { 2000, 61000, 121000, 121001, 200000 },
      b \in BOOLEAN,
      ago \in { 40, 100, 600 },
      h \in { <<>>,
              << [timestamp |-> 1000, duration |-> 100] >>,
              << [timestamp |-> 1000, duration |-> 100],
                 [timestamp |-> 1500, duration |-> 250] >> } }

InitBlink ==
  /\ args \in BlinkCalls
  /\ ret = Undefined
  /\ IdleServer
  /\ IdleFace

CallDetectBlink ==
  /\ ret = Undefined
  /\ ret' = Def(detectBlink(args.eyeAspectRatio, args.currentTime, args.st))
  /\ UNCHANGED <<args, serverVars, faceVars>>

NextBlink == CallDetectBlink
SpecBlink == InitBlink /\ [][NextBlink]_vars

\* C23: the blink history is pruned on each update: after every processed
\* frame the history contains no BlinkEvent whose timestamp is older than
\* the retention window of 2 minutes, even when no new blink has been
\* recorded for a long time.
C23_HistoryPrunedOnEachFrame ==
  IsDef(ret) =>
     \A i \in DOMAIN Val(ret).blinkEvents :
        Val(ret).blinkEvents[i].timestamp > args.currentTime - BlinkRetention

\* a new FaceMetrics sample with a face present reaches the callbacks
PresentSampleEmitted ==
  /\ lastMetrics' # lastMetrics
  /\ IsDef(lastMetrics')
  /\ Val(lastMetrics').isPresent

\* C24: every FaceMetrics sample emitted with isPresent = true, from the
\* camera stream or from the simulated stream, reports a blinkRate equal to
\* the number of BlinkEvents in the blink history whose timestamp lies
\* within the 60 seconds before the sample.
C24_BlinkRateCountsHistory ==
  [][ PresentSampleEmitted =>
        Val(lastMetrics').blinkRate = calculateBlinkRate(blinkEvents', now) ]_vars

\* the camera-stream session so far is the frames held in earWindow, exactly
\* one of them below blinkCloseThreshold and every other one at or above
\* blinkOpenThreshold
SingleJitterFrame ==
  /\ ~session.simulated
  /\ session.frames >= 1
  /\ Len(earWindow) = session.frames
  /\ Cardinality({ i \in DOMAIN earWindow :
                     earWindow[i] < blinkCloseThreshold }) = 1
  /\ \A i \in DOMAIN earWindow :
        earWindow[i] < blinkCloseThreshold \/ earWindow[i] >= blinkOpenThreshold

\* C25: the median filter suppresses single-frame jitter at any position of
\* a session: if exactly one raw EAR frame of a tracking session (the first
\* frame included) is below blinkCloseThreshold and every other frame is at
\* or above blinkOpenThreshold, no blink is started and no BlinkEvent is
\* recorded.
C25_SingleFrameJitterSuppressed ==
  SingleJitterFrame => (~isBlinking /\ ~session.recorded)

-----------------------------------------------------------------------------
(* SpecTags: the reason tags of two assessments, side by side              *)

TagSignals ==
  { [NoSignals EXCEPT !.stressLevel = st, !.stroopTrials = tr,
                      !.voiceProsodyFeatures = vo] :
      st \in { Undefined, Def(3), Def(7), Def(9) },
      tr \in { Undefined, Def(<< [reactionTimeMs |-> 900, correct |-> FALSE] >>) },
      vo \in VoiceOptions }

\* the modality flags of a risk result
flagsOf(rr) ==
  [ reactionTimeElevated |-> rr.reactionTimeElevated,
    accuracyLow |-> rr.accuracyLow,
    behavioralAnomalies |-> rr.behavioralAnomalies,
    voiceStressDetected |-> rr.voiceStressDetected,
    facialStressDetected |-> rr.facialStressDetected ]

\* checkBeforeTrade's lines 113-129 for one assessment: the risk result and
\* the reason tags made from it
assessTags(signals) ==
  LET riskResultOf == calculateRiskScore(signals, Undefined, Undefined,
                                         getDefaultPolicy, 0)
  IN  [ flags |-> flagsOf(riskResultOf),
        reasonTags |-> generateReasonTags(riskResultOf, signals) ]

InitTags ==
  /\ args \in [ first : TagSignals, second : TagSignals ]
  /\ ret = Undefined
  /\ IdleServer
  /\ IdleFace

CallGenerateReasonTags ==
  /\ ret = Undefined
  /\ ret' = Def([ first |-> assessTags(args.first),
                  second |-> assessTags(args.second) ])
  /\ UNCHANGED <<args, serverVars, faceVars>>

NextTags == CallGenerateReasonTags
SpecTags == InitTags /\ [][NextTags]_vars

\* C26: reason tags are a function of the modality flags alone: two
\* assessments whose risk results carry identical flags (reactionTimeElevated,
\* accuracyLow, behavioralAnomalies, voiceStressDetected,
\* facialStressDetected) get identical reason-tag lists.
C26_TagsFollowFlags ==
  (IsDef(ret) /\ Val(ret).first.flags = Val(ret).second.flags)
     => Val(ret).first.reasonTags = Val(ret).second.reasonTags

-----------------------------------------------------------------------------
(* SpecUpdate: an assessment record from checkBeforeTrade through later    *)
(* calls of updateAssessmentFacialMetrics                                   *)

UpdateContexts ==
  { Def([leverage |-> Undefined, recentLosses |-> Def(0), currentPnL |-> Def(0),
         timeOfDay |-> [valid |-> TRUE, utcHour |-> 12],
         marketVolatility |-> Def(50)]),
    Def([leverage |-> Def(20), recentLosses |-> Def(-20000), currentPnL |-> Def(-6000),
         timeOfDay |-> [valid |-> TRUE, utcHour |-> 23],
         marketVolatility |-> Def(150)]) }

\* stressLevel of the request body: absent, low or high
UpdateStressLevels == { Undefined, Def(2), Def(9) }

\* lines 216-241: updateData is built and written to the record
BeginUpdate(facialMetrics, stressLevel) ==
  /\ pc \in { "done", "updateReturned" }
  /\ args' = [facialMetrics |-> facialMetrics, stressLevel |-> stressLevel]
  /\ assessment' = Def([ Val(assessment) EXCEPT
        !.facialMetrics = IF IsDef(facialMetrics) THEN facialMetrics ELSE @,
        !.selfReportStress = IF IsDef(stressLevel) THEN stressLevel ELSE @ ])
  /\ pc' = "stored"
  /\ UNCHANGED <<faceVars, ret, req, userBaseline, policy, tzOffset, auditLog,
                 events, riskResult, result, callLog>>

\* lines 243-266: with a stressLevel the record is read back, mapped to
\* signals and scored again; only riskScore is written
RecalculateRisk ==
  /\ pc = "stored"
  /\ IF IsDef(args.stressLevel)
     THEN LET stored == Val(assessment)
              signals == [NoSignals EXCEPT
                            !.stressLevel = stored.selfReportStress,
                            !.facialMetrics = stored.facialMetrics]
              rr == calculateRiskScore(signals, userBaseline,
                                       Def(req.orderContext), policy, tzOffset)
          IN  assessment' = Def([stored EXCEPT !.riskScore = rr.riskScore])
     ELSE UNCHANGED assessment
  /\ pc' = "rescored"
  /\ UNCHANGED <<faceVars, args, ret, req, userBaseline, policy, tzOffset,
                 auditLog, events, riskResult, result, callLog>>

\* lines 270-283: the details object of line 277 reads facialExpressionScore,
\* a const of the block at lines 225-231 that is unbound here; the read
\* throws a ReferenceError inside the try before storage.createAuditLog is
\* called, and the catch of line 279 swallows it
WriteUpdateAuditLog ==
  /\ pc = "rescored"
  /\ pc' = "updateReturned"
  /\ UNCHANGED <<faceVars, args, ret, req, userBaseline, policy, tzOffset,
                 assessment, auditLog, events, riskResult, result, callLog>>

NextUpdate ==
  \/ /\ pc = "idle"
     /\ \E signals \in CallSignals, orderContext \in UpdateContexts :
           BeginCheck(signals, Val(orderContext))
  \/ ScoreRisk
  \/ RenderVerdict
  \/ SideEffects(TRUE, TRUE)
  \/ ReturnResult
  \/ \E facialMetrics \in FacialMetricsOptions, stressLevel \in UpdateStressLevels :
        BeginUpdate(facialMetrics, stressLevel)
  \/ RecalculateRisk
  \/ WriteUpdateAuditLog
SpecUpdate == InitTrade /\ [][NextUpdate]_vars

C28_UpdateIsAudited ==
  [][ (pc = "rescored" /\ pc' = "updateReturned") =>
         /\ Len(auditLog') = Len(auditLog) + 1
         /\ auditLog'[Len(auditLog')].action = "facial_metrics_updated" ]_vars

-----------------------------------------------------------------------------
(* SpecPolicyFree: calculateRiskScore on the same inputs under two policies *)

RiskPolicies ==
  [ riskThreshold : { 0, 65, 100 },
    cooldownDuration : { 30, 60 },
    enabledModes : [ selfReport : BOOLEAN, voiceProsody : BOOLEAN ] ]

InitPolicyFree ==
  /\ args \in [ signals : TagSignals, baseline : { Undefined },
                orderContext : UpdateContexts, tz : TimeZones,
                first : RiskPolicies, second : RiskPolicies ]
  /\ ret = Undefined
  /\ IdleServer
  /\ IdleFace

CallUnderTwoPolicies ==
  /\ ret = Undefined
  /\ ret' = Def([ first |-> calculateRiskScore(args.signals, args.baseline,
                               args.orderContext, args.first, args.tz),
                  second |-> calculateRiskScore(args.signals, args.baseline,
                               args.orderContext, args.second, args.tz) ])
  /\ UNCHANGED <<args, serverVars, faceVars>>

NextPolicyFree == CallUnderTwoPolicies
SpecPolicyFree == InitPolicyFree /\ [][NextPolicyFree]_vars

\* C29: the risk result does not depend on the policy: for fixed signals,
\* baseline and order context, calculateRiskScore returns the same riskScore,
\* confidence and flags for any two policies, whatever their enabledModes,
\* riskThreshold or cooldownDuration.
C29_RiskResultIgnoresPolicy ==
  IsDef(ret) =>
     /\ Val(ret).first.riskScore = Val(ret).second.riskScore
     /\ Val(ret).first.confidence = Val(ret).second.confidence
     /\ flagsOf(Val(ret).first) = flagsOf(Val(ret).second)

\* a high self-report scored under a policy that enables self-report and
\* under one that does not, with different thresholds and cooldowns
C29_Witness ==
  /\ IsDef(ret)
  /\ args.signals.stressLevel = Def(9)
  /\ args.first.enabledModes.selfReport /\ ~args.second.enabledModes.selfReport
  /\ args.first.riskThreshold # args.second.riskThreshold
  /\ args.first.cooldownDuration # args.second.cooldownDuration
  /\ Val(ret).first.riskScore > 0

\* C30: after stopDetection returns, no metrics callback registered before
\* the stop is ever invoked again, under every interleaving with an
\* in-flight camera frame result, a pending fallback tick or a pending
\* watchdog tick: a stopped service holds no callback, a running one holds
\* only the callback of its own start, and a sample is delivered only while
\* running.
C30_StoppedCallbacksNeverFire ==
  /\ [](~isRunning => callbacks = 0)
  /\ [](callbacks <= 1)
  /\ [][ lastMetrics' # lastMetrics => (isRunning /\ callbacks = 1) ]_vars

\* a frame sent while running came back after the stop: it was processed
\* and no callback has ever been invoked
C30_Witness ==
  /\ ~isRunning
  /\ callbacks = 0
  /\ session.frames = 1
  /\ ~frameInFlight
  /\ lastMetrics = Undefined
=============================================================================
